---- MODULE Spec2Model ----
(***************************************************************************)
(* A model of mapmosaic:                                                   *)
(*   noise/terrain_generator.py    TerrainGenerator   (elevation -> RGB)   *)
(*   noise/heightmap_generator.py  HeightmapGenerator (fBm -> greyscale)   *)
(*   images/processing.py          crop, paste and tile positions          *)
(*   inference/openai.py           OpenAIImageGenerator (retry, handles)   *)
(*   gui/multi_handle_slider.py    MultiHandleSlider                       *)
(*   gui/final_render_widget.py    FinalRenderWidget, _RenderWorker        *)
(*   gui/feature_mapping_widget.py FeatureMappingWidget                    *)
(*   gui/generator_widget.py       GeneratorWidget (tile loop, cancel)      *)
(*   gui/grid_widget.py, gui/main_window.py  the grid page's Continue       *)
(* Each component has a specification of its own; a run of one leaves the  *)
(* variables of the others at their initial values.                        *)
(*                                                                         *)
(* Floating-point numbers are modelled in fixed point: the integer n       *)
(* stands for the number n / Unit, and products and quotients are rounded  *)
(* down to a multiple of 1 / Unit.  The palette bounds and the default     *)
(* generator parameters of the source are exact in this representation.    *)
(***************************************************************************)
EXTENDS Integers, Sequences, FiniteSets, TLC

VARIABLES
    callerRegions,   \* the regions argument the caller passed to TerrainGenerator(...)
    regions,         \* self.regions of the TerrainGenerator
    heightmap,       \* the caller's heightmap handed to apply: [form, data]
    arr,             \* apply's local normalised array
    rgb,             \* the image apply returned, NoImage before a call returns
    tpc,             \* "new" (no generator yet), "ready" (constructed), "applied"
    gen,             \* the HeightmapGenerator objects: name -> fields, NoGen before construction
    last,            \* name -> what the latest generate call on that object did
    nanAsUint8,      \* what this build's float -> uint8 conversion makes of NaN
    job,             \* a generate call in progress, row by row
    base,            \* the image a caller of images/processing.py holds as `base`
    out,             \* what the latest call into images/processing.py did
    req,             \* a request to OpenAIImageGenerator: method, position, handles
    slider,          \* a MultiHandleSlider: Qt range, _values, _dragging, _drag_index
    render,          \* a FinalRenderWidget: buttons, progress bar, render workers
    mapping,         \* a FeatureMappingWidget: heightmap, colormap, regions, range_slider
    tiler,           \* a GeneratorWidget: images, positions, _index, _cancelled, timers
    grid             \* the grid page in MainWindow: page, tiles, selection, project size

tvars == <<callerRegions, regions, heightmap, arr, rgb, tpc>>

hvars == <<gen, last, nanAsUint8, job>>

ivars == <<base, out>>

\* what the actions of one component leave alone
offTerrain == <<hvars, ivars, req, slider, render, mapping, tiler, grid>>
offHeightmap == <<tvars, ivars, req, slider, render, mapping, tiler, grid>>
offImages == <<tvars, hvars, req, slider, render, mapping, tiler, grid>>
offRequest == <<tvars, hvars, ivars, slider, render, mapping, tiler, grid>>
offSlider == <<tvars, hvars, ivars, req, render, mapping, tiler, grid>>
offRender == <<tvars, hvars, ivars, req, slider, mapping, tiler, grid>>
offMapping == <<tvars, hvars, ivars, req, slider, render, tiler, grid>>
offTiler == <<tvars, hvars, ivars, req, slider, render, mapping, grid>>
offGrid == <<tvars, hvars, ivars, req, slider, render, mapping>>

vars == <<callerRegions, regions, heightmap, arr, rgb, tpc, gen, last, nanAsUint8, job,
          base, out, req, slider, render, mapping, tiler, grid>>

-----------------------------------------------------------------------------
(* Bounds of the model *)

MaxRegions == 2      \* longest enumerated caller palette
MaxPixels == 2       \* largest enumerated heightmap, in pixels (h * w)
MaxDim == 2          \* largest width and height asked of generate
MaxSide == 3         \* largest width and height of a base image that is cropped or pasted on
MaxBase == 5         \* largest side n of a square base that is tiled
MaxValue == 3        \* largest range end and handle value handed to the slider
MaxHandles == 2      \* longest list handed to setValues
MaxRenders == 2      \* most render workers one widget launches in a run
MaxMapPixels == 1    \* widest heightmap handed to the feature mapping page
MaxRecolours == 1    \* most colour choices made on the feature mapping page in a run
MaxCanvas == 3       \* largest size handed to GeneratorWidget.generate
MaxTile == 2         \* largest side of a seed image
MaxGenerates == 2    \* most generate calls on one GeneratorWidget in a run

-----------------------------------------------------------------------------
(* Values *)

\* the argument regions=None of the constructor, and a caller's list
NoneArg == [isNone |-> TRUE, list |-> <<>>]
ListArg(s) == [isNone |-> FALSE, list |-> s]

\* no image returned (yet); every image of the model has at least one row
NoImage == <<>>
NoHeightmap == [form |-> "none", data |-> <<>>]

\* the fixed-point representation of 1.0
Unit == 1000

\* the number p / 100
E(p) == (p * Unit) \div 100

Black == <<0, 0, 0>>

DefaultRegions ==
    << <<E(0),  E(30),  <<0, 0, 128>>    >>,
       <<E(30), E(40),  <<64, 160, 224>> >>,
       <<E(40), E(45),  <<238, 214, 175>> >>,
       <<E(45), E(60),  <<120, 200, 80>> >>,
       <<E(60), E(75),  <<16, 128, 16>>  >>,
       <<E(75), E(90),  <<128, 128, 128>> >>,
       <<E(90), E(100), <<255, 255, 255>> >> >>

\* the three-band palette [(0.0,0.3,A), (0.3,0.6,B), (0.6,1.0,C)]
ColA == <<0, 0, 128>>
ColB == <<120, 200, 80>>
ColC == <<255, 255, 255>>

BoundaryPalette ==
    << <<E(0), E(30), ColA>>, <<E(30), E(60), ColB>>, <<E(60), E(100), ColC>> >>

\* regions a caller may list: 0 <= min < max <= 1 on a coarse grid, two colours
ElevGrid == {E(0), E(30), E(100)}

RegionChoices ==
    {<<lo, hi, c>> : lo \in ElevGrid, hi \in ElevGrid, c \in {ColA, ColC}}
        \cap {r \in (ElevGrid \X ElevGrid \X {ColA, ColC}) : r[1] < r[2]}

SeqsUpTo(S, n) == UNION {[1..k -> S] : k \in 0..n}

\* what a caller passes as `regions`
PaletteArgs ==
    {ListArg(s) : s \in SeqsUpTo(RegionChoices, MaxRegions) \cup {BoundaryPalette}}
        \cup {NoneArg}

\* sample values a caller's heightmap may hold: -0.5, 0, 0.3, 0.6, 1.0, 1.5, 255
Samples == {0 - E(50), E(0), E(30), E(60), E(100), E(150), 255 * Unit}

Shapes == {s \in (1..MaxPixels) \X (1..MaxPixels) : s[1] * s[2] <= MaxPixels}

\* a 2-D grid: a sequence of h rows of w samples
Grids == UNION {[1..s[1] -> [1..s[2] -> Samples]] : s \in Shapes}

Heightmaps == [form : {"array", "image"}, data : Grids]

\* the heightmaps of the purity runs: samples -0.5, 0.3 and 1.5
HeldHeightmaps ==
    [form : {"array", "image"},
     data : UNION {[1..s[1] -> [1..s[2] -> {0 - E(50), E(30), E(150)}]] : s \in Shapes}]

-----------------------------------------------------------------------------
(* TerrainGenerator *)

\* a constructor that keeps the caller's order
SortedAsGiven(s) == s

\* sorted(regions, key=lambda r: r[0]): a stable sort by min_elev
RECURSIVE SortedByMin(_)
SortedByMin(s) ==
    IF s = <<>> THEN <<>>
    ELSE LET init == SortedByMin(SubSeq(s, 1, Len(s) - 1))
             r == s[Len(s)]
             k == Cardinality({i \in 1..Len(init) : init[i][1] <= r[1]})
         IN SubSeq(init, 1, k) \o <<r>> \o SubSeq(init, k + 1, Len(init))

GridMax(g) ==
    CHOOSE m \in {g[y][x] : y \in 1..Len(g), x \in 1..Len(g[1])} :
        \A y \in 1..Len(g), x \in 1..Len(g[1]) : g[y][x] <= m

\* a clamp that is left out
ClipOmitted(v) == v

\* np.clip(v, 0.0, 1.0)
Clip(v) == IF v < 0 THEN 0 ELSE IF v > Unit THEN Unit ELSE v

\* apply, lines 34-41: the normalised float array
LoadArray(hm) ==
    IF hm.form = "image"
    THEN IF GridMax(hm.data) > Unit
         THEN [y \in 1..Len(hm.data) |->
                 [x \in 1..Len(hm.data[1]) |-> hm.data[y][x] \div 255]]
         ELSE hm.data
    ELSE [y \in 1..Len(hm.data) |->
             [x \in 1..Len(hm.data[1]) |-> Clip(hm.data[y][x])]]

\* the band test with the bounds swapped: exclusive below, inclusive above
PaintRegionUpperClosed(r, v, c) == IF v > r[1] /\ v <= r[2] THEN r[3] ELSE c

\* a masked assignment that spares pixels an earlier region has painted
PaintRegionKeepFirst(r, v, c) ==
    IF v >= r[1] /\ v < r[2] /\ c = <<0, 0, 0>> THEN r[3] ELSE c

\* one pass of the region loop's body on one pixel whose colour so far is c
PaintRegion(r, v, c) == IF v >= r[1] /\ v < r[2] THEN r[3] ELSE c

\* apply, lines 47-49, seen from one pixel: every region in order, each
\* masked assignment overwriting what the pixel held
RECURSIVE PaintPixel(_, _, _)
PaintPixel(rs, v, c) ==
    IF rs = <<>> THEN c
    ELSE PaintPixel(Tail(rs), v, PaintRegion(rs[1], v, c))

\* a classifier that refuses an empty palette and returns no image
ClassifyRejectEmpty(rs, a) ==
    IF rs = <<>> THEN <<>>
    ELSE [y \in 1..Len(a) |->
            [x \in 1..Len(a[1]) |-> PaintPixel(rs, a[y][x], <<0, 0, 0>>)]]

\* apply, lines 43-51: rgb starts as zeros and is returned as an image
Classify(rs, a) ==
    [y \in 1..Len(a) |-> [x \in 1..Len(a[1]) |-> PaintPixel(rs, a[y][x], Black)]]

-----------------------------------------------------------------------------
(* images/processing.py *)

\* an image is [mode, px]: px is a sequence of rows of pixels, an RGB pixel
\* is <<colour>> and an RGBA pixel is <<colour, alpha>>
NoBase == [mode |-> "none", px |-> <<>>]
NoOut == [op |-> "none", status |-> "none", args |-> <<>>, img |-> NoBase, positions |-> <<>>]

Width(im) == Len(im.px[1])
Height(im) == Len(im.px)

\* the caller's base images: every pixel has a colour of its own, as in the
\* test's Image.new(...) filled by coordinates; RGBA ones mix opaque and
\* fully transparent pixels
BaseImages ==
    {[mode |-> md,
      px |-> [y \in 1..d[2] |-> [x \in 1..d[1] |->
                IF md = "RGB" THEN <<(y - 1) * d[1] + x>>
                ELSE <<(y - 1) * d[1] + x, IF (x + y) % 2 = 0 THEN 255 ELSE 0>>]]] :
        md \in {"RGB", "RGBA"}, d \in (1..MaxSide) \X (1..MaxSide)}

\* overlays of one colour, opaque or fully transparent
Overlays ==
    {[mode |-> "RGBA", px |-> [y \in 1..d[2] |-> [x \in 1..d[1] |-> <<99, a>>]]] :
        d \in (1..MaxSide) \X (1..MaxSide), a \in {0, 255}}

Corners == {"TOP_LEFT", "TOP_RIGHT", "BOTTOM_LEFT", "BOTTOM_RIGHT"}

\* im.convert("RGBA"): a new image; an RGB pixel becomes opaque
Convert(im) ==
    [mode |-> "RGBA",
     px |-> [y \in 1..Height(im) |-> [x \in 1..Width(im) |->
               IF im.mode = "RGB" THEN <<im.px[y][x][1], 255>> ELSE im.px[y][x]]]]

\* im.crop((l, t, r, b)): a new image of size (r - l, b - t); what lies
\* outside im is transparent black
Crop(im, l, t, r, b) ==
    [mode |-> im.mode,
     px |-> [j \in 1..(b - t) |-> [i \in 1..(r - l) |->
               IF t + j \in 1..Height(im) /\ l + i \in 1..Width(im)
               THEN im.px[t + j][l + i] ELSE <<0, 0>>]]]

\* an extraction that leaves the bounds to crop
GetImageAtUnchecked(b, w, h, x, y) ==
    [status |-> "ok", img |-> Crop(Convert(b), x, y, x + w, y + h)]

\* get_image_at(b, (w, h), (x, y))
GetImageAtCall(b, w, h, x, y) ==
    LET base_rgba == Convert(b) IN
    IF x < 0 \/ y < 0 \/ x + w > Width(base_rgba) \/ y + h > Height(base_rgba)
    THEN [status |-> "ValueError", img |-> NoBase]
    ELSE [status |-> "ok", img |-> Crop(base_rgba, x, y, x + w, y + h)]

\* result.paste(ov, (x, y), ov): under the overlay's own alpha as mask, an
\* opaque overlay pixel replaces the pixel below it and a fully transparent
\* one leaves it; the part of the overlay outside the image is dropped
Paste(im, ov, x, y) ==
    [mode |-> im.mode,
     px |-> [j \in 1..Height(im) |-> [i \in 1..Width(im) |->
               IF /\ j - y \in 1..Height(ov)
                  /\ i - x \in 1..Width(ov)
                  /\ ov.px[j - y][i - x][2] = 255
               THEN ov.px[j - y][i - x] ELSE im.px[j][i]]]]

\* place_image_in_corner, lines 36-41: where the overlay goes
CornerPosition(n, m_w, m_h, corner) ==
    <<IF corner \in {"TOP_LEFT", "BOTTOM_LEFT"} THEN 0 ELSE n - m_w,
      IF corner \in {"TOP_LEFT", "TOP_RIGHT"} THEN 0 ELSE n - m_h>>

\* Image.new("RGBA", (n, n), (0, 0, 0, 0))
Transparent(n) == [mode |-> "RGBA", px |-> [y \in 1..n |-> [x \in 1..n |-> <<0, 0>>]]]

\* place_image_in_corner(n, ov, corner)
PlaceImageInCornerCall(n, ov, corner) ==
    IF Width(ov) > n \/ Height(ov) > n THEN [status |-> "ValueError", img |-> NoBase]
    ELSE IF corner \notin Corners THEN [status |-> "ValueError", img |-> NoBase]
    ELSE LET pos == CornerPosition(n, Width(ov), Height(ov), corner)
         IN [status |-> "ok", img |-> Paste(Transparent(n), Convert(ov), pos[1], pos[2])]

\* place_image_at(b, ov, (x, y))
PlaceImageAtCall(b, ov, x, y) ==
    [status |-> "ok", img |-> Paste(Convert(b), Convert(ov), x, y)]

\* get_overlay_positions, lines 160-181: the while loop that collects the
\* positions along one axis
RECURSIVE Walk(_, _, _)
Walk(x, end, step) ==
    IF (step > 0 /\ x <= end) \/ (step <= 0 /\ x >= end)
    THEN <<x>> \o Walk(x + step, end, step)
    ELSE <<>>

\* a tiling that starts at the top left corner whatever corner is asked for
GetOverlayPositionsFromOrigin(n, m_w, m_h, corner) ==
    IF m_w > n \/ m_h > n \/ m_w \div 2 = 0 \/ m_h \div 2 = 0
    THEN [status |-> "ValueError", positions |-> <<>>]
    ELSE LET xs == Walk(0, n - m_w, m_w \div 2)
             ys == Walk(0, n - m_h, m_h \div 2)
         IN [status |-> "ok",
             positions |-> [k \in 1..(Len(ys) * Len(xs)) |->
                              <<xs[((k - 1) % Len(xs)) + 1],
                                ys[((k - 1) \div Len(xs)) + 1]>>]]

\* get_overlay_positions(n, overlay of size (m_w, m_h), corner)
GetOverlayPositionsCall(n, m_w, m_h, corner) ==
    IF m_w > n \/ m_h > n THEN [status |-> "ValueError", positions |-> <<>>]
    ELSE IF m_w \div 2 = 0 \/ m_h \div 2 = 0
         THEN [status |-> "ValueError", positions |-> <<>>]
    ELSE LET xs == IF corner \in {"TOP_LEFT", "BOTTOM_LEFT"}
                   THEN Walk(0, n - m_w, m_w \div 2)
                   ELSE Walk(n - m_w, 0, 0 - (m_w \div 2))
             ys == IF corner \in {"TOP_LEFT", "TOP_RIGHT"}
                   THEN Walk(0, n - m_h, m_h \div 2)
                   ELSE Walk(n - m_h, 0, 0 - (m_h \div 2))
         IN [status |-> "ok",
             positions |-> [k \in 1..(Len(ys) * Len(xs)) |->
                              <<xs[((k - 1) % Len(xs)) + 1],
                                ys[((k - 1) \div Len(xs)) + 1]>>]]

\* no base image made and no call yet
ImagesIdle ==
    /\ base = NoBase
    /\ out = NoOut

\* the caller makes its base image
NewBase(b) ==
    /\ base = NoBase
    /\ out = NoOut
    /\ base' = b
    /\ UNCHANGED out
    /\ UNCHANGED offImages

\* get_image_at(base, (w, h), (x, y)); each run makes one call
GetImageAt(w, h, x, y) ==
    /\ base # NoBase
    /\ out = NoOut
    /\ out' = [op |-> "get_image_at", status |-> GetImageAtCall(base, w, h, x, y).status,
               args |-> <<w, h, x, y>>, img |-> GetImageAtCall(base, w, h, x, y).img,
               positions |-> <<>>]
    /\ UNCHANGED base
    /\ UNCHANGED offImages

\* place_image_at(base, ov, (x, y))
PlaceImageAt(ov, x, y) ==
    /\ base # NoBase
    /\ out = NoOut
    /\ out' = [op |-> "place_image_at", status |-> PlaceImageAtCall(base, ov, x, y).status,
               args |-> <<ov, x, y>>, img |-> PlaceImageAtCall(base, ov, x, y).img,
               positions |-> <<>>]
    /\ UNCHANGED base
    /\ UNCHANGED offImages

\* get_overlay_positions(n, overlay, corner) for an overlay of size (m_w, m_h)
GetOverlayPositions(n, m_w, m_h, corner) ==
    /\ out = NoOut
    /\ out' = [op |-> "get_overlay_positions",
               status |-> GetOverlayPositionsCall(n, m_w, m_h, corner).status,
               args |-> <<n, m_w, m_h, corner>>, img |-> NoBase,
               positions |-> GetOverlayPositionsCall(n, m_w, m_h, corner).positions]
    /\ UNCHANGED base
    /\ UNCHANGED offImages

ImagesNext ==
    \/ \E b \in BaseImages : NewBase(b)
    \/ \E w, h \in 1..(MaxSide + 1), x, y \in (0 - 1)..MaxSide : GetImageAt(w, h, x, y)
    \/ \E ov \in Overlays, x, y \in (0 - 1)..MaxSide : PlaceImageAt(ov, x, y)
    \/ \E n \in 1..MaxBase, m_w, m_h \in 1..MaxBase, c \in Corners :
          GetOverlayPositions(n, m_w, m_h, c)

-----------------------------------------------------------------------------
(* inference/openai.py: OpenAIImageGenerator *)

Methods == {"generate_rough_draft_image", "generate_seed_image", "generate_mosaic_image"}

\* how one generate_image call ends: it returns the path it saved, a stand-in
\* for it (as in the tests) returns None, or openai.images.edit raises
Outcomes == {"path", "None", "raises"}

\* the bound on retries in `if retries >= 3`
RetryLimit == 3

NoRequest ==
    [method |-> "none", pc |-> "idle", image |-> "None", retries |-> 0,
     results |-> <<>>, error |-> "none", handles |-> <<>>]

\* no request made yet
RequestIdle == req = NoRequest

\* a retry loop that allows one attempt more
GivesUpLate(retries) == retries > RetryLimit

\* lines 47, 71, 97: if retries >= 3: raise ValueError
GivesUp(retries) == retries >= RetryLimit

\* the file handles one pass of the loop opens, in order, and whether each
\* is still open when the pass ends.  generate_mosaic_image opens the mask
\* in the argument list (line 94) and nothing closes it: it stays open
\* unless the interpreter has reclaimed the object.  generate_image opens
\* the reference image if the file exists and closes it in `finally`
\* (lines 120-143), and writes the result under `with` (line 151).
HandlesOfPass(method, outcome, refExists, reclaimed) ==
    (IF method = "generate_mosaic_image"
     THEN <<[kind |-> "mask", open |-> ~reclaimed]>> ELSE <<>>)
    \o (IF outcome # "None" /\ refExists
        THEN <<[kind |-> "reference", open |-> FALSE]>> ELSE <<>>)
    \o (IF outcome = "path"
        THEN <<[kind |-> "output", open |-> FALSE]>> ELSE <<>>)

\* the method is entered: lines 29-37, 53-61, 77-85
Call(method) ==
    /\ req.pc = "idle"
    /\ req' = [NoRequest EXCEPT !.method = method, !.pc = "loop"]
    /\ UNCHANGED offRequest

\* one pass of `while image is None`: the generate_image call, retries += 1
\* and the limit test; an exception of generate_image leaves the method
Attempt(outcome, refExists, reclaimed) ==
    /\ req.pc = "loop"
    /\ req.image = "None"
    /\ LET hs == req.handles \o HandlesOfPass(req.method, outcome, refExists, reclaimed)
           rs == Append(req.results, outcome)
       IN req' =
            IF outcome = "raises"
            THEN [req EXCEPT !.pc = "raised", !.error = "APIError",
                             !.results = rs, !.handles = hs]
            ELSE IF GivesUp(req.retries + 1)
            THEN [req EXCEPT !.pc = "raised", !.error = "ValueError",
                             !.image = outcome, !.retries = @ + 1,
                             !.results = rs, !.handles = hs]
            ELSE [req EXCEPT !.pc = IF outcome = "None" THEN "loop" ELSE "returned",
                             !.image = outcome, !.retries = @ + 1,
                             !.results = rs, !.handles = hs]
    /\ UNCHANGED offRequest

RequestNext ==
    \/ \E method \in Methods : Call(method)
    \/ \E outcome \in Outcomes, refExists, reclaimed \in BOOLEAN :
          Attempt(outcome, refExists, reclaimed)

-----------------------------------------------------------------------------
(* gui/multi_handle_slider.py: MultiHandleSlider *)

\* _drag_index is None
NoIndex == 0 - 1

\* self.width(): the length of the groove in pixels
GrooveLength == 4

\* the values a caller lists for setValues: below the range, inside, high
ValueInputs == {0 - 1, 1, MaxValue}

Min2(a, b) == IF a <= b THEN a ELSE b
Max2(a, b) == IF a >= b THEN a ELSE b

\* int(a / b) for b > 0: the quotient rounded towards zero
TruncDiv(a, b) == IF a >= 0 THEN a \div b ELSE 0 - ((0 - a) \div b)

\* _value_to_pixel
ValueToPixel(value, mn, mx) ==
    IF mx > mn THEN TruncDiv((value - mn) * GrooveLength, mx - mn) ELSE 0

\* _pixel_to_value
PixelToValue(pixel, mn, mx) ==
    IF GrooveLength = 0 THEN mn
    ELSE TruncDiv(pixel * (mx - mn) + mn * GrooveLength, GrooveLength)

\* sorted(...) of a list of ints
RECURSIVE SortInts(_)
SortInts(s) ==
    IF s = <<>> THEN <<>>
    ELSE LET init == SortInts(SubSeq(s, 1, Len(s) - 1))
             v == s[Len(s)]
             k == Cardinality({i \in 1..Len(init) : init[i] <= v})
         IN SubSeq(init, 1, k) \o <<v>> \o SubSeq(init, k + 1, Len(init))

\* mousePressEvent, lines 50-54: the first index whose handle is nearest to
\* the pointer (0-based)
Closest(vals, mn, mx, pos) ==
    LET d(i) == LET p == ValueToPixel(vals[i + 1], mn, mx)
                IN IF p >= pos THEN p - pos ELSE pos - p
    IN CHOOSE i \in 0..(Len(vals) - 1) :
           /\ \A j \in 0..(Len(vals) - 1) : d(i) <= d(j)
           /\ \A j \in 0..(i - 1) : d(j) > d(i)

\* a drag that is held to the range only
DragValueUnbounded(vals, idx, val, mn, mx) == Max2(Min2(val, mx), mn)

\* mouseMoveEvent, lines 66-71: the value the dragged handle gets, held to
\* the range and to the neighbours' values
DragValue(vals, idx, val, mn, mx) ==
    LET v1 == Max2(Min2(val, mx), mn)
        v2 == IF idx > 0 THEN Max2(v1, vals[idx]) ELSE v1
    IN IF idx < Len(vals) - 1 THEN Min2(v2, vals[idx + 2]) ELSE v2

\* the slider after __init__: QSlider's range 0..99, no handles, no drag
NewSlider ==
    [minimum |-> 0, maximum |-> 99, values |-> <<>>, dragging |-> FALSE,
     drag_index |-> NoIndex, emitted |-> 0, error |-> "none",
     op |-> "init", arg |-> <<>>]

SliderIdle == slider = NewSlider

\* setRange(minimum, maximum): QSlider keeps maximum >= minimum; the
\* values are clamped with the arguments as given
AfterSetRange(sl, minimum, maximum) ==
    [sl EXCEPT
      !.minimum = minimum,
      !.maximum = Max2(minimum, maximum),
      !.values = [i \in 1..Len(sl.values) |->
                    Max2(Min2(sl.values[i], maximum), minimum)],
      !.emitted = 0, !.error = "none", !.op = "setRange", !.arg = <<>>]

\* setRange on the slider of a run
SetRange(minimum, maximum) ==
    /\ slider' = AfterSetRange(slider, minimum, maximum)
    /\ UNCHANGED offSlider

\* setValues(values)
AfterSetValues(sl, values) ==
    [sl EXCEPT
      !.values = SortInts([i \in 1..Len(values) |->
                    Max2(Min2(values[i], sl.maximum), sl.minimum)]),
      !.emitted = 1, !.error = "none", !.op = "setValues", !.arg = values]

\* setValues on the slider of a run
SetValues(values) ==
    /\ slider' = AfterSetValues(slider, values)
    /\ UNCHANGED offSlider

\* mousePressEvent at pixel pos with or without the left button down
AfterPress(sl, pos, left) ==
    IF left /\ sl.values # <<>>
    THEN [sl EXCEPT
            !.dragging = TRUE,
            !.drag_index = Closest(sl.values, sl.minimum,
                                   sl.maximum, pos),
            !.emitted = 0, !.error = "none", !.op = "press", !.arg = <<>>]
    ELSE [sl EXCEPT
            !.emitted = 0, !.error = "none", !.op = "press", !.arg = <<>>]

\* a press on the slider of a run
MousePress(pos, left) ==
    /\ slider' = AfterPress(slider, pos, left)
    /\ UNCHANGED offSlider

\* mouseMoveEvent at pixel pos; an index past the end of the list raises
\* IndexError before anything is assigned
AfterMove(sl, pos) ==
    IF sl.dragging /\ sl.drag_index # NoIndex
    THEN IF sl.drag_index >= Len(sl.values)
         THEN [sl EXCEPT
                 !.emitted = 0, !.error = "IndexError", !.op = "move", !.arg = <<>>]
         ELSE [sl EXCEPT
                 !.values[sl.drag_index + 1] =
                     DragValue(sl.values, sl.drag_index,
                               PixelToValue(pos, sl.minimum, sl.maximum),
                               sl.minimum, sl.maximum),
                 !.emitted = 1, !.error = "none", !.op = "move", !.arg = <<>>]
    ELSE [sl EXCEPT
            !.emitted = 0, !.error = "none", !.op = "move", !.arg = <<>>]

\* a move over the slider of a run
MouseMove(pos) ==
    /\ slider' = AfterMove(slider, pos)
    /\ UNCHANGED offSlider

\* mouseReleaseEvent
AfterRelease(sl) ==
    IF sl.dragging
    THEN [sl EXCEPT !.dragging = FALSE, !.drag_index = NoIndex,
                        !.emitted = 0, !.error = "none", !.op = "release", !.arg = <<>>]
    ELSE [sl EXCEPT !.emitted = 0, !.error = "none", !.op = "release", !.arg = <<>>]

\* a release over the slider of a run
MouseRelease ==
    /\ slider' = AfterRelease(slider)
    /\ UNCHANGED offSlider

SliderNext ==
    \/ \E mn, mx \in 0..MaxValue : SetRange(mn, mx)
    \/ \E vs \in SeqsUpTo(ValueInputs, MaxHandles) : SetValues(vs)
    \/ \E pos \in (0 - 1)..(GrooveLength + 1), left \in BOOLEAN : MousePress(pos, left)
    \/ \E pos \in (0 - 1)..(GrooveLength + 1) : MouseMove(pos)
    \/ MouseRelease

-----------------------------------------------------------------------------
(* gui/final_render_widget.py: FinalRenderWidget and _RenderWorker *)

\* how the body of _RenderWorker.run ends: generate_rough_draft_image returned
\* a path that Image.open accepted, or one of the two raised
RunOutcomes == {"image", "ValueError", "APIError", "UnidentifiedImageError"}

\* the widget after __init__ (lines 98-110): progress bar hidden, export
\* disabled, the other buttons enabled as QPushButton makes them; no
\* output_dir, no base_image, no worker
NewRender ==
    [output_dir |-> FALSE, base_image |-> FALSE,
     generate_enabled |-> TRUE, back_enabled |-> TRUE, export_enabled |-> FALSE,
     progress_visible |-> FALSE, preview |-> "No map loaded.",
     original_pixmap |-> "None", api_key |-> "unset", saved |-> "nothing",
     workers |-> <<>>, error |-> "none", op |-> "init"]

RenderIdle == render = NewRender

\* the owner assigns output_dir
SetOutputDir ==
    /\ ~render.output_dir
    /\ render' = [render EXCEPT !.output_dir = TRUE, !.error = "none", !.op = "output_dir"]
    /\ UNCHANGED offRender

\* set_colormap(colormap_image)
SetColormap ==
    /\ render' =
          IF ~render.output_dir
          THEN [render EXCEPT !.error = "RuntimeError", !.op = "set_colormap"]
          ELSE [render EXCEPT !.base_image = TRUE, !.preview = "colormap",
                              !.original_pixmap = "colormap",
                              !.export_enabled = FALSE,
                              !.error = "none", !.op = "set_colormap"]
    /\ UNCHANGED offRender

\* a start_generation that leaves the Generate button enabled
StartGenerationKeepsButton(key, prompt) ==
    /\ render.generate_enabled
    /\ Len(render.workers) < MaxRenders
    /\ render' =
          IF ~prompt \/ ~render.base_image
          THEN [render EXCEPT !.api_key = IF key THEN "typed" ELSE @,
                              !.error = "none", !.op = "start_generation"]
          ELSE [render EXCEPT
                  !.api_key = IF key THEN "typed" ELSE @,
                  !.back_enabled = FALSE,
                  !.progress_visible = TRUE,
                  !.workers = Append(@, [state |-> "started", outcome |-> "none",
                                         signals |-> <<>>]),
                  !.error = "none", !.op = "start_generation"]
    /\ UNCHANGED offRender

\* start_generation, the slot of generate_button.clicked: a disabled button
\* emits no click.  key, prompt: the key and the prompt field hold text
StartGeneration(key, prompt) ==
    /\ render.generate_enabled
    /\ Len(render.workers) < MaxRenders
    /\ render' =
          IF ~prompt \/ ~render.base_image
          THEN [render EXCEPT !.api_key = IF key THEN "typed" ELSE @,
                              !.error = "none", !.op = "start_generation"]
          ELSE [render EXCEPT
                  !.api_key = IF key THEN "typed" ELSE @,
                  !.generate_enabled = FALSE,
                  !.back_enabled = FALSE,
                  !.progress_visible = TRUE,
                  !.workers = Append(@, [state |-> "started", outcome |-> "none",
                                         signals |-> <<>>]),
                  !.error = "none", !.op = "start_generation"]
    /\ UNCHANGED offRender

\* _RenderWorker.run of worker k, in its thread: the signal is queued for
\* the widget's thread
Run(k, outcome) ==
    /\ k \in 1..Len(render.workers)
    /\ render.workers[k].state = "started"
    /\ render' = [render EXCEPT
          !.workers[k] = [state |-> "emitted", outcome |-> outcome,
                          signals |-> <<IF outcome = "image" THEN "finished" ELSE "error">>],
          !.op = "run"]
    /\ UNCHANGED offRender

\* on_render_finished, delivered for worker k
OnRenderFinished(k) ==
    /\ k \in 1..Len(render.workers)
    /\ render.workers[k].state = "emitted"
    /\ render.workers[k].signals[1] = "finished"
    /\ render' = [render EXCEPT
          !.preview = "result",
          !.original_pixmap = "result",
          !.progress_visible = FALSE,
          !.generate_enabled = TRUE,
          !.back_enabled = TRUE,
          !.export_enabled = TRUE,
          !.workers[k].state = "delivered",
          !.error = "none", !.op = "on_render_finished"]
    /\ UNCHANGED offRender

\* on_render_error, delivered for worker k
OnRenderError(k) ==
    /\ k \in 1..Len(render.workers)
    /\ render.workers[k].state = "emitted"
    /\ render.workers[k].signals[1] = "error"
    /\ render' = [render EXCEPT
          !.preview = render.workers[k].outcome,
          !.progress_visible = FALSE,
          !.generate_enabled = TRUE,
          !.back_enabled = TRUE,
          !.workers[k].state = "delivered",
          !.error = "none", !.op = "on_render_error"]
    /\ UNCHANGED offRender

\* save_final_map, the slot of export_button.clicked
SaveFinalMap ==
    /\ render.export_enabled
    /\ render' = [render EXCEPT
          !.saved = IF render.original_pixmap # "None" /\ render.output_dir
                    THEN render.original_pixmap ELSE @,
          !.error = "none", !.op = "save_final_map"]
    /\ UNCHANGED offRender

RenderNext ==
    \/ SetOutputDir
    \/ SetColormap
    \/ \E key, prompt \in BOOLEAN : StartGeneration(key, prompt)
    \/ \E k \in 1..MaxRenders, outcome \in RunOutcomes : Run(k, outcome)
    \/ \E k \in 1..MaxRenders : OnRenderFinished(k)
    \/ \E k \in 1..MaxRenders : OnRenderError(k)
    \/ SaveFinalMap

-----------------------------------------------------------------------------
(* gui/feature_mapping_widget.py: FeatureMappingWidget *)

\* self.regions, lines 37-44: the colours of the six regions
MappingRegions ==
    << <<0, 0, 128>>, <<64, 160, 224>>, <<238, 214, 175>>,
       <<120, 200, 80>>, <<16, 128, 16>>, <<128, 128, 128>> >>

\* a colour picked in the colour dialog
Picked == <<255, 0, 0>>

\* line 61: init = [int(90 * (i + 1) / n) for i in range(n)]
InitValues(n) == [i \in 1..n |-> TruncDiv(90 * i, n)]

\* the grey levels of the heightmaps handed to set_heightmap: black, the
\* first level above the first default bound 0.15, white
MapSamples == {0, 39, 255}

\* one-row heightmaps in mode 'L'
MapHeightmaps == {<<row>> : row \in SeqsUpTo(MapSamples, MaxMapPixels) \ {<<>>}}

\* where over the groove the pointer is pressed and moved: its ends and
\* its middle
MapPositions == {0, GrooveLength \div 2, GrooveLength}

\* line 220: one element of np.array(heightmap, dtype=np.float32) / 255.0
Elevation(p) == (p * Unit) \div 255

\* line 225: bounds = [0.0] + [v / 100.0 for v in vals]
MapBounds(vals) == <<0>> \o [i \in 1..Len(vals) |-> E(vals[i])]

\* lines 226-230 for one pixel: the regions from the i-th on paint their
\* bands in turn over colour c
RECURSIVE BandColour(_, _, _, _, _)
BandColour(e, bounds, regs, i, c) ==
    IF i > Len(regs) THEN c
    ELSE BandColour(e, bounds, regs, i + 1,
                    IF bounds[i] <= e /\ e < bounds[i + 1] THEN regs[i] ELSE c)

\* a colouring that leaves out the mask of lines 232-234
MapColourBandsOnly(e, bounds, regs) == BandColour(e, bounds, regs, 1, Black)

\* lines 222-234 for one pixel: black, the bands, then the last region's
\* colour where arr >= bounds[-1]
MapColour(e, bounds, regs) ==
    IF e >= bounds[Len(bounds)] THEN regs[Len(regs)]
    ELSE BandColour(e, bounds, regs, 1, Black)

\* update_colormap with a heightmap loaded; bounds[i + 1] raises IndexError
\* when the slider has fewer values than there are regions
UpdateColormapCall(hm, vals, regs) ==
    IF Len(vals) < Len(regs) THEN [status |-> "IndexError", colormap |-> <<>>]
    ELSE [status |-> "ok",
          colormap |-> [y \in 1..Len(hm) |-> [x \in 1..Len(hm[1]) |->
                          MapColour(Elevation(hm[y][x]), MapBounds(vals), regs)]]]

\* update_colormap on widget w: nothing without a heightmap; a call that
\* raises leaves the colormap it found
Updated(w) ==
    IF w.heightmap = <<>> THEN w
    ELSE LET r == UpdateColormapCall(w.heightmap, w.range_slider.values, w.regions)
         IN IF r.status = "ok" THEN [w EXCEPT !.colormap = r.colormap, !.error = "none"]
            ELSE [w EXCEPT !.error = r.status]

\* the widget after __init__: no heightmap, no colormap, the default
\* regions and a slider over 0..100 with one handle per region
NewMapping ==
    [heightmap |-> <<>>, colormap |-> <<>>, regions |-> MappingRegions,
     range_slider |-> AfterSetValues(AfterSetRange(NewSlider, 0, 100),
                                     InitValues(Len(MappingRegions))),
     recolours |-> 0, error |-> "none"]

MappingIdle == mapping = NewMapping

\* set_heightmap(img) for an image in mode 'L'
SetHeightmap(img) ==
    /\ mapping.heightmap = <<>>
    /\ mapping' = Updated([mapping EXCEPT !.heightmap = img])
    /\ UNCHANGED offMapping

\* a press on the slider or, through eventFilter, on a handle button
MapPress(pos, left) ==
    /\ mapping' = [mapping EXCEPT
          !.range_slider = AfterPress(mapping.range_slider, pos, left),
          !.error = "none"]
    /\ UNCHANGED offMapping

\* a move; valuesChanged is connected to update_colormap (line 63)
MapMove(pos) ==
    /\ LET sl == AfterMove(mapping.range_slider, pos)
           w == [mapping EXCEPT !.range_slider = sl, !.error = sl.error]
       IN mapping' = IF sl.emitted = 1 THEN Updated(w) ELSE w
    /\ UNCHANGED offMapping

\* a release
MapRelease ==
    /\ mapping' = [mapping EXCEPT
          !.range_slider = AfterRelease(mapping.range_slider),
          !.error = "none"]
    /\ UNCHANGED offMapping

\* choose_color(idx) with a valid colour picked in the dialog
ChooseColor(idx) ==
    /\ mapping.recolours < MaxRecolours
    /\ mapping' = Updated([mapping EXCEPT !.regions[idx + 1] = Picked,
                                          !.recolours = @ + 1,
                                          !.error = "none"])
    /\ UNCHANGED offMapping

MappingNext ==
    \/ \E img \in MapHeightmaps : SetHeightmap(img)
    \/ \E pos \in MapPositions, left \in BOOLEAN : MapPress(pos, left)
    \/ \E pos \in MapPositions : MapMove(pos)
    \/ MapRelease
    \/ \E idx \in {0, Len(MappingRegions) - 1} : ChooseColor(idx)

-----------------------------------------------------------------------------
(* gui/generator_widget.py: GeneratorWidget *)

\* a square seed image of one colour, opaque or with a fully transparent
\* first pixel
Seed(m, holed) ==
    [mode |-> "RGBA",
     px |-> [y \in 1..m |-> [x \in 1..m |->
               IF holed /\ x = 1 /\ y = 1 THEN <<0, 0>> ELSE <<7, 255>>]]]

\* the seed images a caller passes: an opaque one of every side and the
\* largest one with a hole
Seeds == {Seed(m, FALSE) : m \in 1..MaxTile} \cup {Seed(MaxTile, TRUE)}

\* lines 95-105: the colormap pixmap scaled to size x size, opaque
ColormapBg(n) == [mode |-> "RGBA", px |-> [y \in 1..n |-> [x \in 1..n |-> <<50, 255>>]]]

\* what generate_mosaic_image and Image.open give for tile idx: an opaque
\* image of the tile's size
PatchFor(idx, m) ==
    [mode |-> "RGBA", px |-> [y \in 1..m |-> [x \in 1..m |-> <<100 + idx, 255>>]]]

\* Image.alpha_composite(bg, im) for alpha 0 and 255; images of different
\* sizes raise ValueError
AlphaComposite(bg, im) ==
    IF Width(bg) # Width(im) \/ Height(bg) # Height(im)
    THEN [status |-> "ValueError", img |-> NoBase]
    ELSE [status |-> "ok",
          img |-> [mode |-> "RGBA",
                   px |-> [y \in 1..Height(im) |-> [x \in 1..Width(im) |->
                             IF im.px[y][x][2] = 255 THEN im.px[y][x] ELSE bg.px[y][x]]]]]

\* alpha.getextrema()[0]: the smallest alpha of the image
MinAlpha(im) ==
    CHOOSE a \in {im.px[y][x][2] : y \in 1..Height(im), x \in 1..Width(im)} :
        \A y \in 1..Height(im), x \in 1..Width(im) : a <= im.px[y][x][2]

\* a test that asks for a region without any opaque pixel
WhollyTransparent(mask) ==
    \A y \in 1..Height(mask), x \in 1..Width(mask) : mask.px[y][x][2] = 0

\* line 161: if min_a == 0
HasTransparentPixel(mask) == MinAlpha(mask) = 0

\* _generate_next_frame(idx, pos) on widget w; outcome: the generator
\* returns a patch or raises
GenerateNextFrame(w, idx, pos, outcome) ==
    LET m == Width(w.seed)
        mask == GetImageAtCall(w.current_nomap, m, Height(w.seed), pos[1], pos[2])
        colormap == GetImageAtCall(w.current_withmap, m, Height(w.seed), pos[1], pos[2])
    IN IF mask.status # "ok" \/ colormap.status # "ok"
       THEN [status |-> "ValueError", called |-> FALSE, patch |-> NoBase]
       ELSE IF HasTransparentPixel(mask.img)
       THEN IF outcome = "raises"
            THEN [status |-> "GeneratorError", called |-> TRUE, patch |-> NoBase]
            ELSE [status |-> "ok", called |-> TRUE, patch |-> PatchFor(idx, m)]
       ELSE [status |-> "ok", called |-> FALSE, patch |-> colormap.img]

NoStep == [idx |-> 0 - 1, called |-> FALSE, patch |-> NoBase]

\* the widget after __init__, lines 30-42, with no timer pending
NewTiler ==
    [seed |-> NoBase, size |-> 0, corner |-> "None",
     current_nomap |-> NoBase, current_withmap |-> NoBase, colormap_bg |-> NoBase,
     positions |-> <<>>, index |-> 0, cancelled |-> FALSE,
     cancel_enabled |-> TRUE, next_enabled |-> TRUE,
     timers |-> 0, frames |-> 0, calls |-> 0, placed |-> <<>>, step |-> NoStep,
     generates |-> 0, raised |-> FALSE, error |-> "none", op |-> "init"]

TilerIdle == tiler = NewTiler

\* generate(seed_fpath, size, corner, ...), lines 85-122; an exception of
\* place_image_in_corner or get_overlay_positions leaves what was assigned
\* before it
AfterGenerate(w, seed, n, corner) ==
    LET w1 == [w EXCEPT !.cancelled = FALSE, !.size = n, !.corner = corner,
                        !.seed = seed, !.colormap_bg = ColormapBg(n),
                        !.generates = @ + 1, !.calls = 0, !.op = "generate"]
        nomap == PlaceImageInCornerCall(n, seed, corner)
        withmap == AlphaComposite(ColormapBg(n), nomap.img)
        ps == GetOverlayPositionsCall(n, Width(seed), Height(seed), corner)
    IN IF nomap.status # "ok"
       THEN [w1 EXCEPT !.error = nomap.status, !.raised = TRUE]
       ELSE IF ps.status # "ok"
       THEN [w1 EXCEPT !.current_nomap = nomap.img, !.current_withmap = withmap.img,
                       !.error = ps.status, !.raised = TRUE]
       ELSE [w1 EXCEPT !.current_nomap = nomap.img, !.current_withmap = withmap.img,
                       !.positions = ps.positions, !.index = 0,
                       !.placed = <<>>, !.step = NoStep,
                       !.timers = @ + 1,
                       !.error = "none", !.raised = FALSE]

\* a call of generate on the widget
TilerGenerate(seed, n, corner) ==
    /\ tiler.generates < MaxGenerates
    /\ tiler' = AfterGenerate(tiler, seed, n, corner)
    /\ UNCHANGED offTiler

\* cancel_generation, the slot of cancel_button.clicked
CancelGeneration ==
    /\ tiler.cancel_enabled
    /\ tiler' = [tiler EXCEPT !.cancelled = TRUE, !.cancel_enabled = FALSE,
                              !.next_enabled = FALSE, !.error = "none", !.op = "cancel"]
    /\ UNCHANGED offTiler

\* a _process_next that takes the positions from the end of the list
ProcessNextBackwards(outcome) ==
    /\ tiler.timers > 0
    /\ \E w0 \in {[tiler EXCEPT !.timers = @ - 1, !.op = "process_next", !.error = "none"]} :
         IF tiler.cancelled \/ tiler.index >= Len(tiler.positions)
         THEN tiler' = w0
         ELSE \E pos \in {tiler.positions[Len(tiler.positions) - tiler.index]} :
              \E f \in {GenerateNextFrame(tiler, tiler.index, pos, outcome)} :
              \E w1 \in {[w0 EXCEPT !.calls = @ + (IF f.called THEN 1 ELSE 0),
                                     !.step = [idx |-> tiler.index, called |-> f.called,
                                               patch |-> f.patch]]} :
                 IF f.status # "ok"
                 THEN tiler' = [w1 EXCEPT !.error = f.status, !.raised = TRUE]
                 ELSE \E nomap \in {PlaceImageAtCall(tiler.current_nomap, f.patch,
                                                     pos[1], pos[2]).img} :
                      \E withmap \in {AlphaComposite(tiler.colormap_bg, nomap)} :
                         tiler' =
                           IF withmap.status # "ok"
                           THEN [w1 EXCEPT !.current_nomap = nomap,
                                           !.error = withmap.status, !.raised = TRUE]
                           ELSE [w1 EXCEPT !.current_nomap = nomap,
                                           !.current_withmap = withmap.img,
                                           !.index = @ + 1,
                                           !.placed = Append(@, pos),
                                           !.frames = @ + 1]
    /\ UNCHANGED offTiler

\* a pending QTimer.singleShot(0, self._process_next) fires: _process_next,
\* lines 178-206, up to QApplication.processEvents(), inside which other
\* handlers run before this activation goes on
ProcessNext(outcome) ==
    /\ tiler.timers > 0
    /\ \E w0 \in {[tiler EXCEPT !.timers = @ - 1, !.op = "process_next", !.error = "none"]} :
         IF tiler.cancelled \/ tiler.index >= Len(tiler.positions)
         THEN tiler' = w0
         ELSE \E pos \in {tiler.positions[tiler.index + 1]} :
              \E f \in {GenerateNextFrame(tiler, tiler.index, pos, outcome)} :
              \E w1 \in {[w0 EXCEPT !.calls = @ + (IF f.called THEN 1 ELSE 0),
                                     !.step = [idx |-> tiler.index, called |-> f.called,
                                               patch |-> f.patch]]} :
                 IF f.status # "ok"
                 THEN tiler' = [w1 EXCEPT !.error = f.status, !.raised = TRUE]
                 ELSE \E nomap \in {PlaceImageAtCall(tiler.current_nomap, f.patch,
                                                     pos[1], pos[2]).img} :
                      \E withmap \in {AlphaComposite(tiler.colormap_bg, nomap)} :
                         tiler' =
                           IF withmap.status # "ok"
                           THEN [w1 EXCEPT !.current_nomap = nomap,
                                           !.error = withmap.status, !.raised = TRUE]
                           ELSE [w1 EXCEPT !.current_nomap = nomap,
                                           !.current_withmap = withmap.img,
                                           !.index = @ + 1,
                                           !.placed = Append(@, pos),
                                           !.frames = @ + 1]
    /\ UNCHANGED offTiler

\* processEvents has returned in an activation of _process_next: lines
\* 207-208, _update_display and QTimer.singleShot(0, self._process_next)
ResumeProcessNext ==
    /\ tiler.frames > 0
    /\ tiler' = [tiler EXCEPT !.frames = @ - 1, !.timers = @ + 1,
                              !.error = "none", !.op = "resume"]
    /\ UNCHANGED offTiler

\* the sizes and corners a caller passes to generate: the two largest
\* canvases, tiled from two opposite corners
TilerSizes == (MaxCanvas - 1)..MaxCanvas

TilerCorners == {"TOP_LEFT", "BOTTOM_RIGHT"}

TilerNext ==
    \/ \E seed \in Seeds, n \in TilerSizes, corner \in TilerCorners :
          TilerGenerate(seed, n, corner)
    \/ CancelGeneration
    \/ \E outcome \in {"patch", "raises"} : ProcessNext(outcome)
    \/ ResumeProcessNext

-----------------------------------------------------------------------------
(* gui/grid_widget.py: GridWidget, and the slots MainWindow connects to it *)

NoPath == "None"

\* Corner(idx + 1) of select_tile
CornerOf(idx) == <<"TOP_LEFT", "TOP_RIGHT", "BOTTOM_LEFT", "BOTTOM_RIGHT">>[idx + 1]

\* GridWidget after __init__ inside MainWindow.__init__, the setup page
\* showing; passed is the (seed_fpath, corner) of the latest generate call
NewGrid ==
    [page |-> 0, size |-> 0, source |-> "AI Generated",
     generated_paths |-> <<NoPath, NoPath, NoPath, NoPath>>,
     colormap_paths |-> <<NoPath, NoPath, NoPath, NoPath>>,
     selected_index |-> NoIndex, selected_path |-> NoPath, corner |-> "None",
     passed |-> <<NoPath, "None">>, op |-> "init"]

GridIdle == grid = NewGrid

\* update_display, lines 141-145: the selection is cleared, selected_path
\* is left as it is
UpdateDisplay(g) == [g EXCEPT !.selected_index = NoIndex, !.corner = "None"]

\* MainWindow.go_to_editor: the project size is read from the setup page
GoToEditor(size) ==
    /\ grid.page = 0
    /\ grid' = [grid EXCEPT !.size = size, !.page = 1, !.op = "go_to_editor"]
    /\ UNCHANGED <<tiler, offGrid>>

\* MainWindow.go_to_grid: set_grid_images with a 512 x 512 colormap saves
\* the four crops, takes a path or None for each generated tile and ends in
\* update_display
GoToGrid(made) ==
    /\ grid.page = 1
    /\ grid' = [UpdateDisplay(grid) EXCEPT
                  !.colormap_paths = <<"crop_0", "crop_1", "crop_2", "crop_3">>,
                  !.generated_paths =
                      [i \in 1..4 |-> IF made[i] THEN <<"seed_0", "seed_1", "seed_2",
                                                       "seed_3">>[i]
                                      ELSE NoPath],
                  !.page = 2, !.op = "go_to_grid"]
    /\ UNCHANGED <<tiler, offGrid>>

\* the user picks the other entry of source_combo: currentIndexChanged
\* runs update_display
SourceChanged ==
    /\ grid.page = 2
    /\ grid' = [UpdateDisplay(grid) EXCEPT
                  !.source = IF @ = "AI Generated" THEN "Colorized" ELSE "AI Generated",
                  !.op = "source"]
    /\ UNCHANGED <<tiler, offGrid>>

\* a click on label idx: select_tile(idx)
SelectTile(idx) ==
    /\ grid.page = 2
    /\ grid' = [grid EXCEPT !.selected_index = idx, !.corner = CornerOf(idx),
                            !.op = "select"]
    /\ UNCHANGED <<tiler, offGrid>>

\* the paths on_next chooses from, lines 167-171
Shown(g) == IF g.source = "AI Generated" THEN g.generated_paths ELSE g.colormap_paths

\* on_next on page g
OnNext(g) ==
    IF g.selected_index = NoIndex THEN g
    ELSE [g EXCEPT !.selected_path = Shown(g)[g.selected_index + 1]]

\* generate(seed_fpath, size, corner, ...) from go_to_generator: Image.open
\* of None raises after the first assignments, a path gives the tile image
GenerateFrom(w, path, n, corner) ==
    IF path = NoPath
    THEN [w EXCEPT !.cancelled = FALSE, !.size = n, !.corner = corner,
                   !.generates = @ + 1, !.calls = 0, !.op = "generate",
                   !.error = "AttributeError", !.raised = TRUE]
    ELSE AfterGenerate(w, Seed(MaxTile, FALSE), n, corner)

\* a click on next_button of the grid page: clicked runs on_next (connected
\* in GridWidget.__init__) and then MainWindow.go_to_generator, which shows
\* the generator page unless generate raised
ClickContinue ==
    /\ grid.page = 2
    /\ tiler.generates < MaxGenerates
    /\ LET g == OnNext(grid)
           w == GenerateFrom(tiler, g.selected_path, g.size, g.corner)
       IN /\ tiler' = w
          /\ grid' = [g EXCEPT !.passed = <<g.selected_path, g.corner>>,
                               !.page = IF w.raised THEN 2 ELSE 3,
                               !.op = "continue"]
    /\ UNCHANGED offGrid

\* the project sizes: one smaller than a tile, one that takes four tiles
GridNext ==
    \/ \E size \in {1, MaxCanvas} : GoToEditor(size)
    \/ \E made \in [1..4 -> BOOLEAN] : GoToGrid(made)
    \/ SourceChanged
    \/ \E idx \in 0..3 : SelectTile(idx)
    \/ ClickContinue

-----------------------------------------------------------------------------
(* HeightmapGenerator *)

\* the generator objects of a run (the test's gen1 and gen2)
Gens == {"gen1", "gen2"}

NoGen == [constructed |-> FALSE]
NoCall == [status |-> "none"]
NoJob == [status |-> "idle", name |-> "gen1", w |-> 0, h |-> 0, order |-> <<>>, field |-> <<>>]

\* the result of 0.0 / 0.0 in a float32 array
NaN == 0 - 1

\* the keyword defaults of __init__
DefaultConfig ==
    [seed |-> 42, base_freq |-> 5, octaves |-> 6, lacunarity |-> 2200,
     gain |-> 500, warp_amp |-> 100, warp_freq |-> 20]

\* the constructor arguments a caller passes: the defaults, the test's
\* (seed=42, octaves=1) at a coarser base frequency, a zero base frequency,
\* zero octaves
Configs ==
    { DefaultConfig,
      [DefaultConfig EXCEPT !.octaves = 1, !.base_freq = 500],
      [DefaultConfig EXCEPT !.base_freq = 0],
      [DefaultConfig EXCEPT !.octaves = 0] }

\* constructor arguments outside the ranges the parameters are meant to have:
\* octaves <= 0, base_freq <= 0, warp_freq <= 0, gain outside (0, 1),
\* lacunarity <= 1
OutOfRangeConfigs ==
    { [DefaultConfig EXCEPT !.octaves = 0 - 1],
      [DefaultConfig EXCEPT !.base_freq = 0 - 5],
      [DefaultConfig EXCEPT !.warp_freq = 0],
      [DefaultConfig EXCEPT !.warp_freq = 0 - 20],
      [DefaultConfig EXCEPT !.gain = 0],
      [DefaultConfig EXCEPT !.gain = Unit],
      [DefaultConfig EXCEPT !.gain = 1500, !.octaves = 3],
      [DefaultConfig EXCEPT !.gain = 0 - Unit, !.octaves = 2],
      [DefaultConfig EXCEPT !.gain = 0 - 500, !.octaves = 2],
      [DefaultConfig EXCEPT !.lacunarity = Unit],
      [DefaultConfig EXCEPT !.lacunarity = 500] }

\* the (width, height) a caller passes to generate
DimPairs == ((0..MaxDim) \X (0..MaxDim)) \cup {<<0 - 1, 1>>, <<1, 0 - 1>>}

\* float multiplication and division
Mul(a, b) == (a * b) \div Unit
Div(a, b) == (a * Unit) \div b

\* a noise source that also draws on state shared by all generators, which
\* every generate call advances
Noise2Shared(noise, x, y) ==
    ((noise.seed * 7919
        + (x * 31 + y * 17) * (1 + Cardinality({n \in Gens : last[n].status # "none"})))
       % (2 * Unit + 1)) - Unit

\* a noise source that keeps a counter which every computed row advances
Noise2Counting(noise, x, y) ==
    ((noise.seed * 7919 + (x * 31 + y * 17) * (1 + Len(job.order)))
       % (2 * Unit + 1)) - Unit

\* OpenSimplex(seed).noise2(x, y): a fixed function of the seed and the
\* coordinates with values in [-1, 1]
Noise2(noise, x, y) ==
    ((noise.seed * 7919 + x * 31 + y * 17) % (2 * Unit + 1)) - Unit

\* _fbm2d, lines 36-44: the octave loop, k passes left; <<total, max_amp>>
RECURSIVE FbmLoop(_, _, _, _, _, _, _, _)
FbmLoop(g, k, x, y, total, amplitude, frequency, max_amp) ==
    IF k <= 0 THEN <<total, max_amp>>
    ELSE FbmLoop(g, k - 1, x, y,
                 total + Mul(Noise2(g.noise, Mul(x, frequency), Mul(y, frequency)),
                             amplitude),
                 Mul(amplitude, g.gain),
                 Mul(frequency, g.lacunarity),
                 max_amp + amplitude)

\* _fbm2d, line 45: total / max_amp raises ZeroDivisionError when max_amp is 0.0
Fbm2dRaises(g, x, y) == FbmLoop(g, g.octaves, x, y, 0, Unit, Unit, 0)[2] = 0

\* an _fbm2d that returns the sum without dividing by the amplitudes
Fbm2dUndivided(g, x, y) == FbmLoop(g, g.octaves, x, y, 0, Unit, Unit, 0)[1]

Fbm2d(g, x, y) ==
    LET r == FbmLoop(g, g.octaves, x, y, 0, Unit, Unit, 0)
    IN Div(r[1], r[2])

\* _domain_warp
DomainWarp(g, x, y) ==
    LET dx == Noise2(g.noise, Mul(x, g.warp_freq), Mul(y, g.warp_freq))
        dy == Noise2(g.noise, Mul(x + 1000 * Unit, g.warp_freq),
                              Mul(y + 1000 * Unit, g.warp_freq))
    IN <<x + Mul(dx, g.warp_amp), y + Mul(dy, g.warp_amp)>>

\* generate, lines 61-63: the warped coordinates of pixel (ix, iy)
Warped(g, ix, iy) == DomainWarp(g, ix * g.base_freq, iy * g.base_freq)

GridMin(a) ==
    CHOOSE m \in {a[y][x] : y \in 1..Len(a), x \in 1..Len(a[1])} :
        \A y \in 1..Len(a), x \in 1..Len(a[1]) : m <= a[y][x]

\* a normalisation that divides by one more than the range
NormalizeOffByOne(v, lo, hi) ==
    IF hi = lo THEN 0 - 1 ELSE ((v - lo) * Unit) \div (hi - lo + 1)

\* generate, line 66: one element of (arr - arr.min()) / (arr.max() - arr.min());
\* a float32 array divided by zero gives NaN and a warning, not an exception
Normalize(v, lo, hi) == IF hi = lo THEN NaN ELSE Div(v - lo, hi - lo)

\* a conversion that rounds to the nearest integer
QuantizeNearest(n, nan8) ==
    IF n = 0 - 1 THEN nan8 ELSE (2 * 255 * n + Unit) \div (2 * Unit)

\* generate, line 68: one element of (arr * 255).astype('uint8'); the
\* conversion drops the fraction, and what it makes of NaN is undefined
Quantize(n, nan8) == IF n = NaN THEN nan8 ELSE Mul(n, 255 * Unit) \div Unit

\* a generate that answers a failed call with an empty image
RaisedAsEmptyImage(exc, w, h, evals) ==
    [status |-> "ok", w |-> w, h |-> h, evals |-> evals,
     raw |-> <<>>, norm |-> <<>>, img |-> <<>>]

\* generate left by exception exc after evals calls of noise2; no image
Raised(exc, w, h, evals) ==
    [status |-> exc, w |-> w, h |-> h, evals |-> evals,
     raw |-> <<>>, norm |-> <<>>, img |-> <<>>]

\* a generator that checks its parameters before it samples any noise
NoiseCallsNone(g) == 0

\* the noise2 calls one pixel makes: two in _domain_warp, one per pass of
\* the octave loop of _fbm2d
NoiseCalls(g) == 2 + (IF g.octaves > 0 THEN g.octaves ELSE 0)

\* generate(width, height) on an object with fields g
GenerateCall(g, w, h, nan8) ==
    IF w < 0 \/ h < 0 THEN Raised("ValueError", w, h, 0)
    ELSE IF \E iy \in 0..(h - 1), ix \in 0..(w - 1) :
               Fbm2dRaises(g, Warped(g, ix, iy)[1], Warped(g, ix, iy)[2])
         THEN Raised("ZeroDivisionError", w, h, NoiseCalls(g))
    ELSE IF w = 0 \/ h = 0 THEN Raised("ValueError", w, h, 0)
    ELSE LET raw == [y \in 1..h |-> [x \in 1..w |->
                        Fbm2d(g, Warped(g, x - 1, y - 1)[1], Warped(g, x - 1, y - 1)[2])]]
             lo == GridMin(raw)
             hi == GridMax(raw)
             norm == [y \in 1..h |-> [x \in 1..w |-> Normalize(raw[y][x], lo, hi)]]
         IN [status |-> "ok", w |-> w, h |-> h, evals |-> w * h * NoiseCalls(g),
             raw |-> raw, norm |-> norm,
             img |-> [y \in 1..h |-> [x \in 1..w |-> Quantize(norm[y][x], nan8)]]]

HeightmapInit ==
    /\ gen = [g \in Gens |-> NoGen]
    /\ last = [g \in Gens |-> NoCall]
    /\ nanAsUint8 \in {0, 255}
    /\ job = NoJob

\* HeightmapGenerator(**cfg)
NewGenerator(name, cfg) ==
    /\ ~gen[name].constructed
    /\ gen' = [gen EXCEPT ![name] =
                 [constructed |-> TRUE,
                  noise |-> [seed |-> cfg.seed],
                  base_freq |-> cfg.base_freq,
                  octaves |-> cfg.octaves,
                  lacunarity |-> cfg.lacunarity,
                  gain |-> cfg.gain,
                  warp_amp |-> cfg.warp_amp,
                  warp_freq |-> cfg.warp_freq]]
    /\ UNCHANGED <<last, nanAsUint8, job>>
    /\ UNCHANGED offHeightmap

\* name.generate(w, h)
Generate(name, w, h) ==
    /\ gen[name].constructed
    /\ last' = [last EXCEPT ![name] = GenerateCall(gen[name], w, h, nanAsUint8)]
    /\ UNCHANGED <<gen, nanAsUint8, job>>
    /\ UNCHANGED offHeightmap

\* generate, line 58: arr = np.zeros((height, width)); no row computed yet
BeginGenerate(name, w, h) ==
    /\ gen[name].constructed
    /\ job.status # "running"
    /\ IF w < 0 \/ h < 0
       THEN /\ last' = [last EXCEPT ![name] = Raised("ValueError", w, h, 0)]
            /\ job' = [NoJob EXCEPT !.status = "failed", !.name = name, !.w = w, !.h = h]
       ELSE /\ job' = [status |-> "running", name |-> name, w |-> w, h |-> h,
                       order |-> <<>>,
                       field |-> [y \in 1..h |-> [x \in 1..w |-> 0]]]
            /\ UNCHANGED last
    /\ UNCHANGED <<gen, nanAsUint8>>
    /\ UNCHANGED offHeightmap

\* generate, lines 60-63: the pass of the outer loop for row iy, taken in
\* whatever order the rows are handed out
ComputeRow(iy) ==
    /\ job.status = "running"
    /\ iy \in 1..job.h
    /\ \A k \in 1..Len(job.order) : job.order[k] # iy
    /\ LET g == gen[job.name] IN
       IF \E ix \in 0..(job.w - 1) :
              Fbm2dRaises(g, Warped(g, ix, iy - 1)[1], Warped(g, ix, iy - 1)[2])
       THEN /\ last' = [last EXCEPT ![job.name] =
                           Raised("ZeroDivisionError", job.w, job.h, NoiseCalls(g))]
            /\ job' = [job EXCEPT !.status = "failed"]
       ELSE /\ job' = [job EXCEPT
                          !.order = Append(@, iy),
                          !.field[iy] = [x \in 1..job.w |->
                              Fbm2d(g, Warped(g, x - 1, iy - 1)[1],
                                       Warped(g, x - 1, iy - 1)[2])]]
            /\ UNCHANGED last
    /\ UNCHANGED <<gen, nanAsUint8>>
    /\ UNCHANGED offHeightmap

\* the loops of lines 59-63 have ended: every row has been computed
Joined == \A iy \in 1..job.h : \E k \in 1..Len(job.order) : job.order[k] = iy

\* generate, lines 65-68, on the joined field
FinishGenerate ==
    /\ job.status = "running"
    /\ Joined
    /\ last' = [last EXCEPT ![job.name] =
          IF job.w = 0 \/ job.h = 0 THEN Raised("ValueError", job.w, job.h, 0)
          ELSE LET raw == job.field
                   lo == GridMin(raw)
                   hi == GridMax(raw)
                   norm == [y \in 1..job.h |-> [x \in 1..job.w |->
                               Normalize(raw[y][x], lo, hi)]]
               IN [status |-> "ok", w |-> job.w, h |-> job.h,
                   evals |-> job.w * job.h * NoiseCalls(gen[job.name]),
                   raw |-> raw, norm |-> norm,
                   img |-> [y \in 1..job.h |-> [x \in 1..job.w |->
                               Quantize(norm[y][x], nanAsUint8)]]]]
    /\ job' = [job EXCEPT !.status = IF job.w = 0 \/ job.h = 0 THEN "failed" ELSE "joined"]
    /\ UNCHANGED <<gen, nanAsUint8>>
    /\ UNCHANGED offHeightmap

RowsNext ==
    \/ \E cfg \in Configs : NewGenerator("gen1", cfg)
    \/ \E d \in DimPairs : BeginGenerate("gen1", d[1], d[2])
    \/ \E iy \in 1..MaxDim : ComputeRow(iy)
    \/ FinishGenerate

HeightmapNext ==
    \/ \E name \in Gens, cfg \in Configs : NewGenerator(name, cfg)
    \/ \E name \in Gens, d \in DimPairs : Generate(name, d[1], d[2])

TerrainIdle ==
    /\ callerRegions = NoneArg
    /\ regions = <<>>
    /\ heightmap = NoHeightmap
    /\ arr = <<>>
    /\ rgb = NoImage
    /\ tpc = "new"

\* a run that uses the generator alone
InitHeightmap ==
    HeightmapInit /\ TerrainIdle /\ ImagesIdle /\ RequestIdle /\ SliderIdle
       /\ RenderIdle /\ MappingIdle /\ TilerIdle /\ GridIdle

SpecHeightmap == InitHeightmap /\ [][HeightmapNext]_vars

\* one generator, built from arguments in or out of range
ConfigNext ==
    \/ \E cfg \in Configs \cup OutOfRangeConfigs : NewGenerator("gen1", cfg)
    \/ \E d \in DimPairs : Generate("gen1", d[1], d[2])

SpecConfig == InitHeightmap /\ [][ConfigNext]_vars

\* one generator whose generate calls compute their rows in any order
SpecRows == InitHeightmap /\ [][RowsNext]_vars

-----------------------------------------------------------------------------
(* The two components as state machines *)

TerrainInit ==
    /\ callerRegions = NoneArg
    /\ regions = <<>>
    /\ heightmap = NoHeightmap
    /\ arr = <<>>
    /\ rgb = NoImage
    /\ tpc = "new"

\* TerrainGenerator(regions)
Construct(arg) ==
    /\ tpc = "new"
    /\ callerRegions' = arg
    /\ regions' = SortedByMin(IF arg.isNone THEN DefaultRegions ELSE arg.list)
    /\ tpc' = "ready"
    /\ UNCHANGED <<heightmap, arr, rgb>>
    /\ UNCHANGED offTerrain

\* tg.apply(hm).  apply writes no field of the generator, so a call made
\* after an earlier one returned reaches the states a first call reaches;
\* the model lets each run make one call.
Apply(hm) ==
    /\ tpc = "ready"
    /\ heightmap' = hm
    /\ arr' = LoadArray(hm)
    /\ rgb' = Classify(regions, LoadArray(hm))
    /\ tpc' = "applied"
    /\ UNCHANGED <<callerRegions, regions>>
    /\ UNCHANGED offTerrain

TerrainNext ==
    \/ \E arg \in PaletteArgs : Construct(arg)
    \/ \E hm \in Heightmaps : Apply(hm)

\* the caller makes the heightmap it will hand to apply
Load(hm) ==
    /\ tpc = "ready"
    /\ heightmap = NoHeightmap
    /\ heightmap' = hm
    /\ UNCHANGED <<callerRegions, regions, arr, rgb, tpc>>
    /\ UNCHANGED offTerrain

\* an apply that clips and rescales the caller's array where it lies
ApplyHeldInPlace ==
    /\ tpc # "new"
    /\ heightmap # NoHeightmap
    /\ heightmap' = [heightmap EXCEPT !.data = LoadArray(heightmap)]
    /\ arr' = LoadArray(heightmap)
    /\ rgb' = Classify(regions, LoadArray(heightmap))
    /\ tpc' = IF tpc = "ready" THEN "applied" ELSE "reapplied"
    /\ UNCHANGED <<callerRegions, regions>>
    /\ UNCHANGED offTerrain

\* tg.apply(heightmap) on the heightmap the caller holds, a first time
\* ("applied") or again ("reapplied").  Lines 35 and 40 copy the input into
\* arr, and nothing is assigned to the heightmap or to self.regions.
ApplyHeld ==
    /\ tpc # "new"
    /\ heightmap # NoHeightmap
    /\ arr' = LoadArray(heightmap)
    /\ rgb' = Classify(regions, LoadArray(heightmap))
    /\ tpc' = IF tpc = "ready" THEN "applied" ELSE "reapplied"
    /\ UNCHANGED <<callerRegions, regions, heightmap>>
    /\ UNCHANGED offTerrain

PurityNext ==
    \/ \E arg \in PaletteArgs : Construct(arg)
    \/ \E hm \in HeldHeightmaps : Load(hm)
    \/ ApplyHeld

HeightmapIdle ==
    /\ gen = [g \in Gens |-> NoGen]
    /\ last = [g \in Gens |-> NoCall]
    /\ nanAsUint8 = 0
    /\ job = NoJob

\* a run that uses the classifier alone
InitTerrain ==
    TerrainInit /\ HeightmapIdle /\ ImagesIdle /\ RequestIdle /\ SliderIdle
       /\ RenderIdle /\ MappingIdle /\ TilerIdle /\ GridIdle

SpecTerrain == InitTerrain /\ [][TerrainNext]_vars

\* a run that uses the image helpers alone
InitImages ==
    ImagesIdle /\ TerrainIdle /\ HeightmapIdle /\ RequestIdle /\ SliderIdle
       /\ RenderIdle /\ MappingIdle /\ TilerIdle /\ GridIdle

\* a run that uses the OpenAI image generator alone
InitRequest ==
    RequestIdle /\ TerrainIdle /\ HeightmapIdle /\ ImagesIdle /\ SliderIdle
       /\ RenderIdle /\ MappingIdle /\ TilerIdle /\ GridIdle

\* a run that uses a slider alone
InitSlider ==
    SliderIdle /\ TerrainIdle /\ HeightmapIdle /\ ImagesIdle /\ RequestIdle
       /\ RenderIdle /\ MappingIdle /\ TilerIdle /\ GridIdle

\* a run that uses a FinalRenderWidget alone
InitRender ==
    RenderIdle /\ TerrainIdle /\ HeightmapIdle /\ ImagesIdle /\ RequestIdle
       /\ SliderIdle /\ TilerIdle /\ GridIdle /\ MappingIdle

SpecRender == InitRender /\ [][RenderNext]_vars

\* a run that uses a FeatureMappingWidget alone
InitMapping ==
    MappingIdle /\ TerrainIdle /\ HeightmapIdle /\ ImagesIdle /\ RequestIdle
       /\ SliderIdle /\ RenderIdle /\ TilerIdle /\ GridIdle

SpecMapping == InitMapping /\ [][MappingNext]_vars

\* a run that uses a GeneratorWidget alone
InitTiler ==
    TilerIdle /\ TerrainIdle /\ HeightmapIdle /\ ImagesIdle /\ RequestIdle
       /\ SliderIdle /\ GridIdle /\ RenderIdle /\ MappingIdle

SpecTiler == InitTiler /\ [][TilerNext]_vars

\* the event loop fires a pending zero timer, and processEvents returns
SpecTilerFair ==
    /\ SpecTiler
    /\ WF_vars(\E outcome \in {"patch", "raises"} : ProcessNext(outcome))
    /\ WF_vars(ResumeProcessNext)

\* a run of the pages up to the generator page
InitGrid ==
    GridIdle /\ TilerIdle /\ TerrainIdle /\ HeightmapIdle /\ ImagesIdle
       /\ RequestIdle /\ SliderIdle /\ RenderIdle /\ MappingIdle

SpecGrid == InitGrid /\ [][GridNext]_vars

SpecSlider == InitSlider /\ [][SliderNext]_vars

SpecRequest == InitRequest /\ [][RequestNext]_vars

SpecImages == InitImages /\ [][ImagesNext]_vars

\* a run that applies the classifier repeatedly to one heightmap
SpecPurity == InitTerrain /\ [][PurityNext]_vars

-----------------------------------------------------------------------------
(* Properties of TerrainGenerator *)

Applied == tpc = "applied"

\* the pixel positions of the image apply returned
Pixels == {p \in (1..Len(rgb)) \X (1..Len(rgb[1])) : TRUE}

\* v lies in region r's half-open interval [min_elev, max_elev)
InBand(r, v) == r[1] <= v /\ v < r[2]

Bands(v) == {i \in 1..Len(regions) : InBand(regions[i], v)}

TopRegions == {i \in 1..Len(regions) : \A j \in 1..Len(regions) : regions[j][2] <= regions[i][2]}

NonOverlapping ==
    \A i, j \in 1..Len(regions) :
        i # j => (regions[i][2] <= regions[j][1] \/ regions[j][2] <= regions[i][1])

\* the colour apply gives a pixel whose normalised value is v
ColourOf(v) == Classify(regions, <<<<v>>>>)[1][1]

\* C1: with a non-empty palette, a sample in [0,1] that lies in no region's
\* half-open interval (1.0 under a top band ending at 1.0 included) gets the
\* colour of a region with the largest max_elev.
C1_GapGoesToTopRegion ==
    (Applied /\ regions # <<>>) =>
        \A p \in Pixels :
            LET v == arr[p[1]][p[2]] IN
            (v >= 0 /\ v <= Unit /\ Bands(v) = {}) =>
                \E i \in TopRegions : rgb[p[1]][p[2]] = regions[i][3]

C3_BandCoverage ==
    (/\ Applied
     /\ regions # <<>>
     /\ \A p \in Pixels : heightmap.data[p[1]][p[2]] \in 0..Unit) =>
        \A p \in Pixels :
            /\ \E i \in 1..Len(regions) : rgb[p[1]][p[2]] = regions[i][3]
            /\ Bands(arr[p[1]][p[2]]) # {}

\* C4 as stated: for array and image input alike, a sample below 0 is
\* classified as 0.0 is, a sample above 1 as 1.0 is, and an image is returned.
C4_ClampsEveryForm ==
    Applied =>
        /\ rgb # NoImage
        /\ \A p \in Pixels :
            LET v == heightmap.data[p[1]][p[2]] IN
            /\ v < 0 => rgb[p[1]][p[2]] = ColourOf(0)
            /\ v > Unit => rgb[p[1]][p[2]] = ColourOf(Unit)

\* C4 amended: apply returns an image for array and image input alike, and
\* for 2-D array input a sample below 0 is classified as 0.0 is and a sample
\* above 1 as 1.0 is.
C4_ClampsArrayForm ==
    Applied =>
        /\ rgb # NoImage
        /\ heightmap.form = "array" =>
              \A p \in Pixels :
                  LET v == heightmap.data[p[1]][p[2]] IN
                  /\ v < 0 => rgb[p[1]][p[2]] = ColourOf(0)
                  /\ v > Unit => rgb[p[1]][p[2]] = ColourOf(Unit)

\* an array holding a sample below 0 that got the colour of the band at 0,
\* and a sample above 1
C4_OutOfRangeArrayReached ==
    /\ Applied
    /\ heightmap.form = "array"
    /\ \E p \in Pixels :
          heightmap.data[p[1]][p[2]] < 0 /\ rgb[p[1]][p[2]] # Black
    /\ \E p \in Pixels : heightmap.data[p[1]][p[2]] > Unit

\* C5 as stated: classifying against zero regions returns no image.
C5_EmptyPaletteFails == (Applied /\ regions = <<>>) => rgb = NoImage

\* C5 amended: a palette of zero regions is accepted by the constructor, and
\* apply then returns an image of the heightmap's shape, every pixel black.
C5_EmptyPaletteAllBlack ==
    /\ (tpc # "new" /\ callerRegions = ListArg(<<>>)) => regions = <<>>
    /\ (Applied /\ regions = <<>>) =>
          /\ Len(rgb) = Len(heightmap.data)
          /\ \A y \in 1..Len(heightmap.data) :
                /\ Len(rgb[y]) = Len(heightmap.data[y])
                /\ \A x \in 1..Len(heightmap.data[y]) : rgb[y][x] = Black

\* apply has returned for a generator built from an empty list
C5_EmptyPaletteReached ==
    Applied /\ callerRegions = ListArg(<<>>) /\ rgb # NoImage

\* C6: with non-overlapping regions, a sample with min_elev <= v < max_elev
\* for a region gets that region's colour (lower bound inclusive, upper
\* bound exclusive).
C6_HalfOpenBands ==
    (Applied /\ NonOverlapping) =>
        \A p \in Pixels : \A i \in 1..Len(regions) :
            (regions[i][1] <= arr[p[1]][p[2]] /\ arr[p[1]][p[2]] < regions[i][2])
                => rgb[p[1]][p[2]] = regions[i][3]

\* the boundary shared by two bands belongs to the band that starts there
C6_SharedBoundaryReached ==
    /\ Applied
    /\ regions = BoundaryPalette
    /\ heightmap.form = "array"
    /\ \E p \in Pixels :
          heightmap.data[p[1]][p[2]] = E(30) /\ rgb[p[1]][p[2]] = ColB
    /\ \E p \in Pixels :
          heightmap.data[p[1]][p[2]] = E(60) /\ rgb[p[1]][p[2]] = ColC

-----------------------------------------------------------------------------
(* Properties of HeightmapGenerator *)

Called(n) == last[n].status # "none"
Returned(n) == last[n].status = "ok"

ImagePixels(n) == (1..last[n].h) \X (1..last[n].w)

\* every raw sample of the field has the same value
FlatField(n) == GridMin(last[n].raw) = GridMax(last[n].raw)

TwoInstancesAgree ==
    \A a, b \in Gens :
        (/\ gen[a].constructed /\ gen[b].constructed /\ gen[a] = gen[b]
         /\ Called(a) /\ Called(b)
         /\ last[a].w = last[b].w /\ last[a].h = last[b].h) =>
            (last[a].status = last[b].status /\ last[a].img = last[b].img)

RepeatAgrees ==
    \A n \in Gens :
        (Called(n) /\ last'[n].w = last[n].w /\ last'[n].h = last[n].h) =>
            (/\ last'[n].status = last[n].status
             /\ last'[n].img = last[n].img
             /\ gen'[n] = gen[n])

C8_RangeInvariant ==
    \A n \in Gens :
        Returned(n) =>
            /\ \A p \in ImagePixels(n) : last[n].img[p[1]][p[2]] \in 0..255
            /\ ~FlatField(n) =>
                  (GridMin(last[n].img) = 0 /\ GridMax(last[n].img) = 255)

\* an image of a field that is not flat, with a sample strictly between
C8_FullRangeReached ==
    \E n \in Gens :
        /\ Returned(n)
        /\ ~FlatField(n)
        /\ \E p \in ImagePixels(n) :
              last[n].img[p[1]][p[2]] > 0 /\ last[n].img[p[1]][p[2]] < 255

\* C9: when every raw sample has the same value, generate returns an image
\* of the requested size whose samples are all 0, and no division by zero
\* is performed.
C9_FlatFieldAllZero ==
    \A n \in Gens :
        (Returned(n) /\ FlatField(n)) =>
            /\ Len(last[n].img) = last[n].h
            /\ \A p \in ImagePixels(n) :
                  /\ last[n].norm[p[1]][p[2]] # NaN
                  /\ last[n].img[p[1]][p[2]] = 0

\* C10 as stated: each normalized value n is stored as the integer nearest
\* to 255 * n.
C10_RoundsToNearest ==
    \A n \in Gens :
        (Returned(n) /\ ~FlatField(n)) =>
            \A p \in ImagePixels(n) :
                LET v == last[n].norm[p[1]][p[2]]
                    q == last[n].img[p[1]][p[2]]
                IN /\ 2 * q * Unit <= 2 * 255 * v + Unit
                   /\ 2 * 255 * v - Unit <= 2 * q * Unit

\* C10 amended: each normalized value n in [0,1] is stored as the integer
\* part of 255 * n (the fraction is dropped), which lies in 0..255.
C10_DropsFraction ==
    \A n \in Gens :
        (Returned(n) /\ ~FlatField(n)) =>
            \A p \in ImagePixels(n) :
                LET v == last[n].norm[p[1]][p[2]]
                    q == last[n].img[p[1]][p[2]]
                IN /\ v \in 0..Unit
                   /\ q \in 0..255
                   /\ q * Unit <= 255 * v
                   /\ 255 * v < (q + 1) * Unit

\* a stored sample that is not the integer nearest to 255 * n
C10_FractionAboveHalfReached ==
    \E n \in Gens :
        /\ Returned(n)
        /\ ~FlatField(n)
        /\ \E p \in ImagePixels(n) :
              LET v == last[n].norm[p[1]][p[2]]
                  q == last[n].img[p[1]][p[2]]
              IN 2 * (255 * v - q * Unit) > Unit

\* the configuration the spec calls invalid
InvalidConfig(g) ==
    \/ g.octaves <= 0
    \/ g.base_freq <= 0
    \/ g.warp_freq <= 0
    \/ g.gain <= 0 \/ g.gain >= Unit
    \/ g.lacunarity <= Unit

PositiveSize(n) == last[n].w >= 1 /\ last[n].h >= 1

\* C11 as stated: a generator with an invalid configuration ends every
\* generate call in an error, raised before any noise sample is evaluated.
C11_InvalidConfigRejected ==
    \A n \in Gens :
        (gen[n].constructed /\ InvalidConfig(gen[n]) /\ Called(n)) =>
            (~Returned(n) /\ last[n].evals = 0)

\* C11 amended: nothing is validated.  For positive width and height,
\* octaves <= 0 ends generate in ZeroDivisionError after the two domain-warp
\* noise samples of the first pixel, and every configuration with
\* octaves >= 1 and gain >= 0 returns an image, whatever base_freq,
\* warp_freq and lacunarity are.
C11_OnlyZeroOctavesFail ==
    \A n \in Gens :
        (gen[n].constructed /\ Called(n) /\ PositiveSize(n)) =>
            /\ gen[n].octaves <= 0 =>
                  (last[n].status = "ZeroDivisionError" /\ last[n].evals = 2)
            /\ (gen[n].octaves >= 1 /\ gen[n].gain >= 0) =>
                  (/\ Returned(n)
                   /\ Len(last[n].img) = last[n].h
                   /\ last[n].evals = last[n].w * last[n].h * (2 + gen[n].octaves))

\* a generator with a negative base frequency has returned an image
C11_OutOfRangeImageReached ==
    /\ gen["gen1"].constructed
    /\ gen["gen1"].base_freq < 0
    /\ InvalidConfig(gen["gen1"])
    /\ Returned("gen1")
    /\ last["gen1"].w = 2 /\ last["gen1"].h = 2

\* b^k as k float multiplications starting from 1.0
RECURSIVE Pow(_, _)
Pow(b, k) == IF k = 0 THEN Unit ELSE Mul(Pow(b, k - 1), b)

\* sum over k in 0..n-1 of noise(ux * lacunarity^k, uy * lacunarity^k) * gain^k
RECURSIVE OctaveSum(_, _, _, _)
OctaveSum(g, ux, uy, n) ==
    IF n = 0 THEN 0
    ELSE OctaveSum(g, ux, uy, n - 1)
         + Mul(Noise2(g.noise, Mul(ux, Pow(g.lacunarity, n - 1)),
                               Mul(uy, Pow(g.lacunarity, n - 1))),
               Pow(g.gain, n - 1))

\* sum over k in 0..n-1 of gain^k
RECURSIVE AmplitudeSum(_, _)
AmplitudeSum(g, n) == IF n = 0 THEN 0 ELSE AmplitudeSum(g, n - 1) + Pow(g.gain, n - 1)

\* the two warp samples of the pixel whose unwarped coordinates are (wx, wy)
WarpSamples(g, wx, wy) ==
    <<Noise2(g.noise, Mul(wx, g.warp_freq), Mul(wy, g.warp_freq)),
      Noise2(g.noise, Mul(wx + 1000 * Unit, g.warp_freq),
                      Mul(wy + 1000 * Unit, g.warp_freq))>>

\* C23: for octaves = n >= 1 the raw value of every pixel of a returned
\* field is the sum over k in 0..n-1 of noise(ux * lacunarity^k,
\* uy * lacunarity^k) * gain^k divided by the sum of gain^k, where (ux, uy)
\* is the pixel's position displaced by two warp samples times warp_amp;
\* noise2 is evaluated 2 + n times per pixel; and with gain >= 0 the raw
\* value lies in [-1, 1].
C23_FbmSum ==
    \A name \in Gens :
        (gen[name].constructed /\ gen[name].octaves >= 1 /\ Returned(name)) =>
            LET g == gen[name]
                n == g.octaves
            IN /\ \A iy \in 1..last[name].h, ix \in 1..last[name].w :
                     LET wx == (ix - 1) * g.base_freq
                         wy == (iy - 1) * g.base_freq
                         d == WarpSamples(g, wx, wy)
                         ux == wx + Mul(d[1], g.warp_amp)
                         uy == wy + Mul(d[2], g.warp_amp)
                         raw == last[name].raw[iy][ix]
                     IN /\ raw = Div(OctaveSum(g, ux, uy, n), AmplitudeSum(g, n))
                        /\ g.gain >= 0 => (0 - Unit <= raw /\ raw <= Unit)
               /\ last[name].evals = last[name].w * last[name].h * (2 + n)

\* three octaves with a gain of 1.5 have filled a field two pixels wide
C23_ThreeOctavesReached ==
    /\ gen["gen1"].constructed
    /\ gen["gen1"].octaves = 3
    /\ gen["gen1"].gain = 1500
    /\ Returned("gen1")
    /\ last["gen1"].w = 2 /\ last["gen1"].h = 1
    /\ last["gen1"].evals = 10

\* C12: generate(width, height) with width <= 0 or height <= 0 ends in an
\* error and returns no image.
C12_InvalidDimensionFails ==
    \A n \in Gens :
        (Called(n) /\ (last[n].w <= 0 \/ last[n].h <= 0)) =>
            (last[n].status = "ValueError" /\ last[n].img = NoImage)

\* calls with a zero width and with a negative height have raised
C12_ZeroAndNegativeReached ==
    /\ Called("gen1") /\ last["gen1"].w = 0 /\ last["gen1"].h = 1
    /\ last["gen1"].status = "ValueError"
    /\ Called("gen2") /\ last["gen2"].w = 1 /\ last["gen2"].h < 0
    /\ last["gen2"].status = "ValueError"

-----------------------------------------------------------------------------
(* Purity and order independence of TerrainGenerator *)

HasApplied == tpc \in {"applied", "reapplied"}

SameShape(a, b) ==
    /\ Len(a) = Len(b)
    /\ \A y \in 1..Len(a) : Len(a[y]) = Len(b[y])

\* what a step that ends an apply call leaves alone
ApplyFrame ==
    (tpc' \in {"applied", "reapplied"}) =>
        /\ heightmap' = heightmap
        /\ callerRegions' = callerRegions
        /\ regions' = regions
        /\ tpc # "ready" => rgb' = rgb

Orders(s) == {[i \in 1..Len(s) |-> s[f[i]]] : f \in Permutations(1..Len(s))}

DistinctMins(s) == \A i, j \in 1..Len(s) : i # j => s[i][1] # s[j][1]

\* every order of the caller's list gives the image that was returned
OrderIndependent ==
    \A t \in Orders(callerRegions.list) :
        Classify(SortedByMin(t), LoadArray(heightmap)) = rgb

\* C14 as stated: every permutation of the caller's region list yields the
\* same output, regions with equal min_elev included.
C14_OrderIndependent ==
    (HasApplied /\ ~callerRegions.isNone) => OrderIndependent

\* C14 amended: every permutation of a region list whose min_elev values
\* are pairwise distinct yields the same output, overlapping intervals
\* included.
C14_OrderIndependentDistinctMins ==
    (HasApplied /\ ~callerRegions.isNone /\ DistinctMins(callerRegions.list)) =>
        OrderIndependent

\* overlapping regions with distinct min_elev, listed in descending order,
\* and a sample both contain
C14_UnsortedOverlapReached ==
    /\ HasApplied
    /\ callerRegions = ListArg(<< <<E(30), E(100), ColC>>, <<E(0), E(100), ColA>> >>)
    /\ \E y \in 1..Len(arr) : \E x \in 1..Len(arr[y]) :
          arr[y][x] = E(30) /\ rgb[y][x] = ColC

-----------------------------------------------------------------------------
(* Row order in generate *)

\* what the serial row-major loop returns for the job's generator and size
Serial == GenerateCall(gen[job.name], job.w, job.h, nanAsUint8)

-----------------------------------------------------------------------------
(* Properties of images/processing.py *)

\* pixel (px, py) of the base lies under the tile of size (m_w, m_h) at pos
Under(pos, m_w, m_h, px, py) ==
    /\ pos[1] <= px /\ px < pos[1] + m_w
    /\ pos[2] <= py /\ py < pos[2] + m_h

\* C16: for a square n x n base and a square m x m overlay with
\* 2 <= m <= n, placed from any corner, the tiles at the positions
\* get_overlay_positions returns cover every pixel of the base.
C16_TilesCoverBase ==
    (/\ out.op = "get_overlay_positions"
     /\ out.args[2] = out.args[3]
     /\ 2 <= out.args[2] /\ out.args[2] <= out.args[1]) =>
        /\ out.status = "ok"
        /\ \A px, py \in 0..(out.args[1] - 1) :
              \E k \in 1..Len(out.positions) :
                  Under(out.positions[k], out.args[2], out.args[3], px, py)

\* the region (w, h) at (x, y) lies inside the base
InBounds(w, h, x, y) ==
    x >= 0 /\ y >= 0 /\ x + w <= Width(base) /\ y + h <= Height(base)

\* C20: get_image_at returns a region of exactly (w, h) whose pixels are
\* the base's pixels at offset (x, y) when the region lies inside the base
\* and raises ValueError when it lies partly or wholly outside; neither
\* get_image_at nor place_image_at modifies the base, and place_image_at
\* returns an image of the base's size.
C20_ExactRegionOrError ==
    /\ [](out.op = "get_image_at" =>
            LET w == out.args[1]
                h == out.args[2]
                x == out.args[3]
                y == out.args[4]
            IN IF InBounds(w, h, x, y)
               THEN /\ out.status = "ok"
                    /\ Height(out.img) = h
                    /\ \A j \in 1..h :
                          /\ Len(out.img.px[j]) = w
                          /\ \A i \in 1..w :
                                out.img.px[j][i] = Convert(base).px[y + j][x + i]
               ELSE out.status = "ValueError" /\ out.img = NoBase)
    /\ [](out.op = "place_image_at" =>
            /\ out.status = "ok"
            /\ Height(out.img) = Height(base)
            /\ Width(out.img) = Width(base))
    /\ [][out'.op \in {"get_image_at", "place_image_at"} => base' = base]_vars

\* a region strictly inside an RGB base, away from the origin, was returned
C20_InnerRegionReached ==
    /\ out.op = "get_image_at"
    /\ out.status = "ok"
    /\ base.mode = "RGB"
    /\ out.args = <<2, 1, 1, 1>>
    /\ Width(base) = 3 /\ Height(base) = 3
    /\ out.img.px = << << <<5, 255>>, <<6, 255>> >> >>

\* the tiles of size (m_w, m_h) at positions p and q share a pixel
Overlap(p, q, m_w, m_h) ==
    /\ p[1] < q[1] + m_w /\ q[1] < p[1] + m_w
    /\ p[2] < q[2] + m_h /\ q[2] < p[2] + m_h

\* C30: get_overlay_positions(n, overlay, corner) with an overlay no larger
\* than the base and both half sizes >= 1 returns a list of pairwise
\* distinct positions (x, y) with 0 <= x <= n - m_w and 0 <= y <= n - m_h,
\* so that get_image_at accepts each; the first is where
\* place_image_in_corner puts the overlay for the same corner, and every
\* later tile overlaps a tile before it; any other overlay size raises
\* ValueError.
C30_PositionsWellFormed ==
    out.op = "get_overlay_positions" =>
        LET n == out.args[1]
            m_w == out.args[2]
            m_h == out.args[3]
            ps == out.positions
        IN IF m_w > n \/ m_h > n \/ m_w \div 2 = 0 \/ m_h \div 2 = 0
           THEN out.status = "ValueError" /\ ps = <<>>
           ELSE /\ out.status = "ok"
                /\ Len(ps) >= 1
                /\ \A j, k \in 1..Len(ps) : j # k => ps[j] # ps[k]
                /\ \A k \in 1..Len(ps) :
                      /\ 0 <= ps[k][1] /\ ps[k][1] <= n - m_w
                      /\ 0 <= ps[k][2] /\ ps[k][2] <= n - m_h
                      /\ GetImageAtCall(Transparent(n), m_w, m_h,
                                        ps[k][1], ps[k][2]).status = "ok"
                      /\ k > 1 => \E j \in 1..(k - 1) : Overlap(ps[j], ps[k], m_w, m_h)
                /\ ps[1] = CornerPosition(n, m_w, m_h, out.args[4])

\* a 2 x 3 overlay was tiled over a base of side 5 from the bottom right
C30_BottomRightTilingReached ==
    /\ out.op = "get_overlay_positions"
    /\ out.args = <<5, 2, 3, "BOTTOM_RIGHT">>
    /\ out.status = "ok"
    /\ out.positions[1] = <<3, 2>>
    /\ Len(out.positions) = 12

-----------------------------------------------------------------------------
(* Properties of OpenAIImageGenerator *)

Finished == req.pc \in {"returned", "raised"}

\* C17: a request makes at most three generate_image calls; every call but
\* the last returned None; when the first call returns a path the method
\* returns it after that one call; three calls that all return None end in
\* ValueError; and the loop cannot go on: while the method is in its loop
\* fewer than three calls have been made and each pass makes one more.
C17_BoundedRetry ==
    /\ [](/\ Len(req.results) <= 3
          /\ \A k \in 1..(Len(req.results) - 1) : req.results[k] = "None"
          /\ (req.results # <<>> /\ req.results[1] = "path") =>
                (req.pc = "returned" /\ req.image = "path" /\ Len(req.results) = 1)
          /\ req.results = <<"None", "None", "None">> =>
                (req.pc = "raised" /\ req.error = "ValueError")
          /\ req.pc = "loop" => Len(req.results) < 3)
    /\ [][req.pc = "loop" => Len(req'.results) = Len(req.results) + 1]_vars

\* three calls were made, each returned None, and the method raised
C17_ThreeFailuresReached ==
    /\ req.method = "generate_rough_draft_image"
    /\ req.results = <<"None", "None", "None">>
    /\ req.pc = "raised"
    /\ req.error = "ValueError"

\* C18: when a request has returned or raised, every file handle opened
\* while serving it - reference image and mask, on every attempt - is
\* closed.
C18_HandlesClosed ==
    Finished => \A k \in 1..Len(req.handles) : ~req.handles[k].open

\* C22: when one of the generate_image calls of a request returned a path,
\* on the first, second or third attempt, the method returns that path;
\* ValueError is raised only when every call returned None.
C22_RetryResult ==
    /\ (Finished /\ \E k \in 1..Len(req.results) : req.results[k] = "path") =>
          (req.pc = "returned" /\ req.image = "path")
    /\ req.error = "ValueError" =>
          \A k \in 1..Len(req.results) : req.results[k] = "None"

-----------------------------------------------------------------------------
(* Properties of MultiHandleSlider *)

Ascending(vals) == \A i \in 1..(Len(vals) - 1) : vals[i] <= vals[i + 1]

WithinRange(vals, mn, mx) == \A i \in 1..Len(vals) : mn <= vals[i] /\ vals[i] <= mx

\* how often v occurs in the list vals
Count(vals, v) == Cardinality({i \in 1..Len(vals) : vals[i] = v})

\* what a mouse move that reached the assignment did to the values
DragStep ==
    (/\ slider'.op = "move"
     /\ slider.dragging
     /\ slider.drag_index # NoIndex
     /\ slider'.error = "none") =>
        LET k == slider.drag_index + 1 IN
        /\ Len(slider'.values) = Len(slider.values)
        /\ \A i \in 1..Len(slider.values) :
              i # k => slider'.values[i] = slider.values[i]
        /\ k > 1 => slider'.values[k] >= slider.values[k - 1]
        /\ k < Len(slider.values) => slider'.values[k] <= slider.values[k + 1]

\* what setValues stored for the list it was given, and what it emitted
StoredSortedClamped ==
    slider.op = "setValues" =>
        /\ Len(slider.values) = Len(slider.arg)
        /\ \A v \in slider.minimum..slider.maximum :
              Count(slider.values, v) =
                  Cardinality({i \in 1..Len(slider.arg) :
                      Max2(Min2(slider.arg[i], slider.maximum), slider.minimum) = v})
        /\ slider.emitted = 1

\* C19: after any sequence of setRange, setValues, press, move and release
\* the values are ascending and within [minimum, maximum]; a drag changes
\* only the grabbed handle and stops at its neighbours' values; setValues
\* stores the input sorted and clamped to the range and emits valuesChanged
\* exactly once.
C19_HandlesCannotCross ==
    /\ [](/\ Ascending(slider.values)
          /\ WithinRange(slider.values, slider.minimum, slider.maximum)
          /\ slider.minimum <= slider.maximum
          /\ StoredSortedClamped)
    /\ [][DragStep]_vars

\* the first of two handles was dragged up against the second
C19_StoppedAtNeighbourReached ==
    /\ slider.op = "move"
    /\ slider.dragging
    /\ slider.drag_index = 0
    /\ slider.minimum = 0 /\ slider.maximum = MaxValue
    /\ slider.values = <<MaxValue - 1, MaxValue - 1>>
    /\ slider.emitted = 1

\* C29: while a drag is active _drag_index is a valid index into the current
\* values, so a mouse move during a drag never fails and changes at most
\* values[_drag_index], whatever setValues and setRange calls come between
\* press, move and release; while no drag is active _drag_index is None and
\* a mouse move leaves the values unchanged.
C29_DragIndexValid ==
    /\ [](/\ slider.dragging =>
                (0 <= slider.drag_index /\ slider.drag_index < Len(slider.values))
          /\ ~slider.dragging => slider.drag_index = NoIndex
          /\ slider.error = "none")
    /\ [][slider'.op = "move" =>
            /\ Len(slider'.values) = Len(slider.values)
            /\ \A i \in 1..Len(slider.values) :
                  (~slider.dragging \/ i # slider.drag_index + 1) =>
                      slider'.values[i] = slider.values[i]]_vars

-----------------------------------------------------------------------------
(* Properties of FinalRenderWidget *)

\* the workers whose run has begun and whose signal has not been delivered
InFlight == {k \in 1..Len(render.workers) : render.workers[k].state # "delivered"}

\* C21: initially generate and back are enabled, export is disabled and the
\* progress bar is hidden; while a worker launched by start_generation has
\* not had on_render_finished or on_render_error run, generate and back are
\* disabled and the progress bar is visible, and at most one worker is in
\* flight; otherwise generate and back are enabled and the progress bar is
\* hidden; only on_render_finished enables export and set_colormap leaves
\* it disabled; every worker that ran emitted exactly one signal, finished
\* or error.
C21_ButtonProtocol ==
    /\ [](/\ render.op = "init" =>
                (/\ render.generate_enabled /\ render.back_enabled
                 /\ ~render.export_enabled /\ ~render.progress_visible)
          /\ Cardinality(InFlight) <= 1
          /\ InFlight # {} =>
                (/\ ~render.generate_enabled /\ ~render.back_enabled
                 /\ render.progress_visible)
          /\ InFlight = {} =>
                (/\ render.generate_enabled /\ render.back_enabled
                 /\ ~render.progress_visible)
          /\ \A k \in 1..Len(render.workers) :
                /\ (render.workers[k].state = "started") => (render.workers[k].signals = <<>>)
                /\ render.workers[k].state # "started" =>
                      (/\ Len(render.workers[k].signals) = 1
                       /\ render.workers[k].signals[1] \in {"finished", "error"}))
    /\ [][/\ (render'.export_enabled /\ ~render.export_enabled) =>
                render'.op = "on_render_finished"
          /\ (render'.op = "set_colormap" /\ render'.error = "none") =>
                ~render'.export_enabled
          /\ render'.op \in {"on_render_finished", "on_render_error"} =>
                (/\ render'.generate_enabled /\ render'.back_enabled
                 /\ ~render'.progress_visible)]_vars

\* a second render is in flight after the first one ended with a result
C21_SecondRenderReached ==
    /\ Len(render.workers) = 2
    /\ render.workers[1] =
          [state |-> "delivered", outcome |-> "image", signals |-> <<"finished">>]
    /\ render.workers[2].state = "emitted"
    /\ render.export_enabled
    /\ ~render.generate_enabled
    /\ render.progress_visible

-----------------------------------------------------------------------------
(* Properties of FeatureMappingWidget *)

\* C24: with bounds [0, v1/100, ..., vn/100] built from the n ascending
\* slider values, n the number of regions, every pixel e of the heightmap
\* with bounds[i] <= e < bounds[i+1] has region i's colour in the colormap
\* and every pixel with e >= the highest bound has the last region's
\* colour; each pixel falls under exactly one of these cases, so in every
\* reachable state of the slider no pixel is left unclassified.
C24_EveryPixelClassified ==
    LET vals == mapping.range_slider.values
        regs == mapping.regions
        n == Len(regs)
        bounds == [i \in 1..(Len(vals) + 1) |-> IF i = 1 THEN 0 ELSE E(vals[i - 1])]
    IN /\ Len(vals) = n
       /\ Ascending(vals)
       /\ mapping.error = "none"
       /\ mapping.heightmap # <<>> =>
             /\ Len(mapping.colormap) = Len(mapping.heightmap)
             /\ \A y \in 1..Len(mapping.heightmap), x \in 1..Len(mapping.heightmap[1]) :
                   LET e == Elevation(mapping.heightmap[y][x])
                       c == mapping.colormap[y][x]
                       band == {i \in 1..n : bounds[i] <= e /\ e < bounds[i + 1]}
                   IN /\ \A i \in band : c = regs[i]
                      /\ e >= bounds[n + 1] => c = regs[n]
                      /\ Cardinality(band) + (IF e >= bounds[n + 1] THEN 1 ELSE 0) = 1
                      /\ \E i \in 1..n : c = regs[i]

\* the last handle was dragged down to the fifth at 0.6 and a white pixel
\* has the last region's colour
C24_AboveLastBoundReached ==
    /\ mapping.range_slider.op = "move"
    /\ mapping.range_slider.values[6] = 60
    /\ mapping.range_slider.values[5] = 60
    /\ mapping.heightmap = << <<255>> >>
    /\ mapping.colormap = << <<MappingRegions[6]>> >>

-----------------------------------------------------------------------------
(* Properties of GeneratorWidget *)

\* the latest generate call returned and nothing has raised since
Tiling == tiler.generates > 0 /\ ~tiler.raised

\* the pixels of current_nomap under the tile that _process_next takes next
UnderNextTile ==
    LET pos == tiler.positions[tiler.index + 1]
    IN {tiler.current_nomap.px[pos[2] + j][pos[1] + i] :
            j \in 1..Height(tiler.seed), i \in 1..Width(tiler.seed)}

Opaque(im) == \A y \in 1..Height(im), x \in 1..Width(im) : im.px[y][x][2] = 255

\* C25: when _process_next takes a tile, the image generator is called if
\* and only if the region of current_nomap under the tile has a fully
\* transparent pixel; without a call the patch is the region of
\* current_withmap under the tile; and tile 0 of an opaque seed makes no
\* call.
C25_CallIffTransparent ==
    [][(/\ tiler'.op = "process_next"
        /\ Tiling
        /\ ~tiler.cancelled
        /\ tiler.index < Len(tiler.positions)) =>
          LET pos == tiler.positions[tiler.index + 1]
              gap == \E p \in UnderNextTile : p[2] = 0
          IN /\ tiler'.step.idx = tiler.index
             /\ tiler'.step.called <=> gap
             /\ tiler'.calls = tiler.calls + (IF gap THEN 1 ELSE 0)
             /\ ~gap => tiler'.step.patch =
                            Crop(tiler.current_withmap, pos[1], pos[2],
                                 pos[1] + Width(tiler.seed), pos[2] + Height(tiler.seed))
             /\ (tiler.index = 0 /\ Opaque(tiler.seed)) => ~tiler'.step.called]_vars

\* the second tile of an opaque seed reached a transparent part and the
\* generator was called once
C25_SecondTileCalledReached ==
    /\ tiler.op = "process_next"
    /\ Tiling
    /\ Opaque(tiler.seed)
    /\ tiler.size = 3 /\ Width(tiler.seed) = 2
    /\ tiler.index = 2
    /\ tiler.step = [idx |-> 1, called |-> TRUE, patch |-> PatchFor(1, 2)]
    /\ tiler.calls = 1

\* C26: after generate, while nothing was cancelled and no call raised,
\* the tiles placed so far are positions[0], ..., positions[_index - 1] in
\* list order, each once; 0 <= _index <= len(positions) in every state;
\* current_withmap is the colormap background composited with
\* current_nomap; and processing leads to _index = len(positions) with no
\* callback pending.
C26_TileLoopProgress ==
    /\ [](/\ 0 <= tiler.index /\ tiler.index <= Len(tiler.positions)
          /\ Tiling =>
                /\ tiler.placed = SubSeq(tiler.positions, 1, tiler.index)
                /\ tiler.current_withmap =
                      AlphaComposite(tiler.colormap_bg, tiler.current_nomap).img)
    /\ [][(tiler'.op = "process_next" /\ Tiling /\ tiler'.index # tiler.index) =>
            /\ tiler'.index = tiler.index + 1
            /\ tiler'.placed = Append(tiler.placed, tiler.positions[tiler.index + 1])]_vars
    /\ (Tiling /\ tiler.op = "generate") ~>
          \/ tiler.index = Len(tiler.positions) /\ tiler.timers = 0 /\ tiler.frames = 0
          \/ tiler.cancelled
          \/ tiler.raised

\* the four tiles of a 3 x 3 canvas have been placed from the bottom right
\* and no callback is pending
C26_AllTilesPlacedReached ==
    /\ Tiling
    /\ ~tiler.cancelled
    /\ tiler.generates = 1
    /\ tiler.size = 3 /\ Width(tiler.seed) = 2 /\ tiler.corner = "BOTTOM_RIGHT"
    /\ tiler.placed = << <<1, 1>>, <<0, 1>>, <<1, 0>>, <<0, 0>> >>
    /\ tiler.index = 4
    /\ tiler.timers = 0 /\ tiler.frames = 0

\* C27: once cancel_generation has been called, and until generate is called
\* anew, no step changes _index, current_nomap or current_withmap or calls
\* the image generator, whatever callbacks are pending; and after a new
\* generate call exactly one _process_next chain is active.
C27_CancelStopsTiling ==
    /\ [][(tiler.cancelled /\ tiler'.op # "generate") =>
            /\ tiler'.index = tiler.index
            /\ tiler'.current_nomap = tiler.current_nomap
            /\ tiler'.current_withmap = tiler.current_withmap
            /\ tiler'.calls = tiler.calls]_vars
    /\ []((tiler.op = "generate" /\ tiler.error = "none") =>
             tiler.timers + tiler.frames = 1)

\* C28: a click on Continue reaches GeneratorWidget.generate only when a
\* tile is selected, and then with that tile's path and corner; a click
\* without a selection starts no tile loop.
C28_SelectionGate ==
    [][grid'.op = "continue" =>
         /\ tiler'.generates # tiler.generates =>
               /\ grid.selected_index # NoIndex
               /\ grid'.passed = <<Shown(grid)[grid.selected_index + 1],
                                   CornerOf(grid.selected_index)>>
         /\ grid.selected_index = NoIndex => tiler'.timers = tiler.timers]_vars

====
